---- MODULE Spec2Model ----
(***************************************************************************)
(* A model of the Sterad server (src/src/index.ts): the LRU memory cache,  *)
(* the disk cache path resolver, the route classifier, the trust boundary  *)
(* validator and the GET / POST / DELETE request handlers of Bun.serve.    *)
(*                                                                         *)
(* Strings are TLA+ strings; the string functions of the source work on    *)
(* their characters (Chars / Str convert between the two).                 *)
(***************************************************************************)
EXTENDS Integers, Sequences, FiniteSets, TLC

(***************************************************************************)
(* Evaluation helpers.  Only({e : v \in {d}}) is "let v be d in e" with d  *)
(* evaluated once; \E v \in {d} : P is the same for a condition P.         *)
(***************************************************************************)
Only(S) == CHOOSE x \in S : TRUE

\* a sequence given as a function, as a tuple
Tuple(f) == f \o <<>>

\* least and greatest element of a set of numbers, 0 for the empty set
First(S) ==
  Only({IF T = {} THEN 0 ELSE CHOOSE x \in T : \A y \in T : x <= y :
          T \in {S}})

Last(S) ==
  Only({IF T = {} THEN 0 ELSE CHOOSE x \in T : \A y \in T : y <= x :
          T \in {S}})

(***************************************************************************)
(* JavaScript string primitives used by the source.                        *)
(***************************************************************************)
Chars(s) ==
  Only({Tuple([i \in 1..Len(v) |-> SubSeq(v, i, i)]) : v \in {s}})

Str(cs) ==
  Only({LET go[i \in 1..(Len(v) + 1)] ==
              IF i > Len(v) THEN "" ELSE v[i] \o go[i + 1]
        IN  go[1] : v \in {Tuple(cs)}})

\* the character U+0000 (written %00 in a URL)
NUL == "\f"

\* the JavaScript value null returned by the resolvers
Null == "null"

includes(s, sub) ==
  \E v \in {s}, w \in {sub} :
    \E i \in 1..(Len(v) - Len(w) + 1) : SubSeq(v, i, i + Len(w) - 1) = w

startsWith(s, p) ==
  \E v \in {s}, w \in {p} : Len(v) >= Len(w) /\ SubSeq(v, 1, Len(w)) = w

endsWith(s, p) ==
  \E v \in {s}, w \in {p} :
    Len(v) >= Len(w) /\ SubSeq(v, Len(v) - Len(w) + 1, Len(v)) = w

\* s.substring(n) / s.slice(n): drop the first n characters
substring(s, n) == Only({SubSeq(v, n + 1, Len(v)) : v \in {s}})

\* s.lastIndexOf(c) for a one-character c: 0-based index, -1 when absent
lastIndexOf(s, c) ==
  Only({Last({i \in 1..Len(v) : SubSeq(v, i, i) = c}) - 1 : v \in {s}})

\* s.replace(/[set]/g, repl) for a class of single characters
replaceClass(s, set, repl) ==
  Only({Str([i \in 1..Len(cs) |-> IF cs[i] \in set THEN repl ELSE cs[i]]) :
          cs \in {Chars(s)}})

\* s.replace(/\/+/g, "/"): every run of slashes becomes one slash
collapseSlashes(s) ==
  Only({Str([i \in 1..Len(cs) |->
               IF cs[i] = "/" /\ i < Len(cs) /\ cs[i + 1] = "/" THEN ""
               ELSE cs[i]]) : cs \in {Chars(s)}})

UpperLetters == Chars("ABCDEFGHIJKLMNOPQRSTUVWXYZ")
LowerLetters == Chars("abcdefghijklmnopqrstuvwxyz")

toLowerChar(c) ==
  Only({IF k = 0 THEN c ELSE LowerLetters[k] :
          k \in {First({i \in 1..26 : UpperLetters[i] = c})}})

\* the lower case of a sequence of characters
lower(cs) ==
  Only({Tuple([i \in 1..Len(v) |-> toLowerChar(v[i])]) : v \in {cs}})

toLowerCase(s) == Str(lower(Chars(s)))

\* s.split(sep) for a one-character separator, as a sequence of strings
split(s, sep) ==
  Only({Only({Tuple([k \in 1..(Len(at) - 1) |->
                       SubSeq(v, at[k] + 1, at[k + 1] - 1)]) :
                \* the places of the separators in their order, between
                \* the two ends of the text
                at \in {Only({Tuple([k \in 1..(Cardinality(P) + 2) |->
                                       IF k = 1 THEN 0
                                       ELSE IF k = Cardinality(P) + 2
                                       THEN Len(v) + 1
                                       ELSE CHOOSE i \in P :
                                              Cardinality({j \in P : j < i})
                                                = k - 2]) :
                               P \in {{i \in 1..Len(v) :
                                         SubSeq(v, i, i) = sep}}})}}) :
          v \in {s}})

(***************************************************************************)
(* decodeURIComponent / decodeURI.  A percent escape is %XY with two hex   *)
(* digits; a malformed escape raises URIError (ok = FALSE).  EscapeTable   *)
(* lists the escapes the request alphabet of this model can form; decodeURI*)
(* leaves the escapes of reserved characters (/ and ? here) untouched.     *)
(***************************************************************************)
EscapeTable ==
  [h \in {"2e", "2f", "25", "5c", "00", "3f", "20", "0a"} |->
     CASE h = "2e" -> "."
       [] h = "2f" -> "/"
       [] h = "25" -> "%"
       [] h = "5c" -> "\\"
       [] h = "00" -> NUL
       [] h = "3f" -> "?"
       [] h = "20" -> " "
       [] h = "0a" -> "\n"]

UriReserved == {"/", "?"}

URIError == [ok |-> FALSE, val |-> ""]

decodeCs(cs, keep) ==
  LET go[i \in 1..(Len(cs) + 1)] ==
        IF i > Len(cs) THEN [ok |-> TRUE, val |-> ""]
        ELSE IF cs[i] # "%"
        THEN Only({[ok |-> r.ok, val |-> cs[i] \o r.val] : r \in {go[i + 1]}})
        ELSE IF i + 2 > Len(cs) THEN URIError
        ELSE Only({IF h \notin DOMAIN EscapeTable THEN URIError
                   ELSE Only({[ok |-> r.ok,
                               val |-> (IF EscapeTable[h] \in keep
                                        THEN cs[i] \o cs[i + 1] \o cs[i + 2]
                                        ELSE EscapeTable[h]) \o r.val] :
                                r \in {go[i + 3]}}) :
                     h \in {toLowerChar(cs[i + 1]) \o toLowerChar(cs[i + 2])}})
  IN  go[1]

decodeURIComponent(s) == Only({decodeCs(cs, {}) : cs \in {Chars(s)}})

decodeURI(s) == Only({decodeCs(cs, UriReserved) : cs \in {Chars(s)}})

(***************************************************************************)
(* node:path on POSIX: resolve, relative, join over absolute paths.        *)
(***************************************************************************)
\* fold the segments of a path: "" and "." vanish, ".." pops
normalizeSegs(segs) ==
  LET go[i \in 0..Len(segs)] ==
        \* the folding of the first i segments
        IF i = 0 THEN <<>>
        ELSE Only({IF segs[i] = "" \/ segs[i] = "." THEN acc
                   ELSE IF segs[i] = ".."
                        THEN (IF acc = <<>> THEN acc
                              ELSE SubSeq(acc, 1, Len(acc) - 1))
                        ELSE Append(acc, segs[i]) : acc \in {go[i - 1]}})
  IN  go[Len(segs)]

joinSegs(segs) ==
  LET go[i \in 1..(Len(segs) + 1)] ==
        IF i > Len(segs) THEN "" ELSE "/" \o segs[i] \o go[i + 1]
  IN  go[1]

absSegs(p) == Only({normalizeSegs(segs) : segs \in {split(p, "/")}})

absPath(segs) ==
  Only({IF s = <<>> THEN "/" ELSE joinSegs(s) : s \in {segs}})

\* path.resolve(base, rel): an absolute rel replaces base
resolve(base, rel) ==
  Only({IF startsWith(r, "/") THEN absPath(absSegs(r))
        ELSE absPath(absSegs(base \o "/" \o r)) : r \in {rel}})

\* path.join(base, rel) for an absolute base
join(base, rel) == absPath(absSegs(base \o "/" \o rel))

commonPrefixLen(a, b) ==
  Last({n \in 0..Len(a) : n <= Len(b) /\ \A i \in 1..n : a[i] = b[i]})

relJoin(segs) ==
  LET go[i \in 1..(Len(segs) + 1)] ==
        IF i > Len(segs) THEN ""
        ELSE IF i = Len(segs) THEN segs[i]
             ELSE segs[i] \o "/" \o go[i + 1]
  IN  go[1]

\* path.relative(from, to) for absolute paths
relative(from, to) ==
  Only({Only({relJoin(segs) :
                segs \in {[i \in 1..(Len(f) - n) |-> ".."]
                            \o SubSeq(t, n + 1, Len(t)) :
                            n \in {commonPrefixLen(f, t)}}}) :
          f \in {absSegs(from)}, t \in {absSegs(to)}})

\* path.dirname of an absolute path
dirname(p) ==
  Only({absPath(SubSeq(s, 1, Len(s) - 1)) : s \in {absSegs(p)}})

(***************************************************************************)
(* Configuration: directories (config.spa_dist, config.cache_dir resolved).*)
(***************************************************************************)
spaDistAbsolute == "/srv/dist"

cacheDirAbsolute == join(spaDistAbsolute, ".sterad__cache")

(***************************************************************************)
(* Secure path validation.                                                 *)
(***************************************************************************)
maxIterations == 3

\* a sanitizePath without its decoding loop
sanitizeWithoutDecoding(inputPath) ==
  Only({IF p = "" THEN "/"
        ELSE Only({IF Len(rooted) > 1 /\ endsWith(rooted, "/")
                   THEN SubSeq(rooted, 1, Len(rooted) - 1)
                   ELSE rooted :
                     rooted \in
                       {IF startsWith(single, "/") THEN single
                        ELSE "/" \o single :
                          single \in
                            {collapseSlashes(
                               replaceClass(replaceClass(p, {NUL}, ""),
                                            {"\\"}, "/"))}}}) :
          p \in {inputPath}})

\* the decoding loop of sanitizePath: decode until nothing changes, at most
\* maxIterations times; a decoding failure stops with the current path
RECURSIVE decodeLoop(_, _, _)
decodeLoop(cleanPath, previousPath, iterations) ==
  IF cleanPath = previousPath \/ iterations >= maxIterations THEN cleanPath
  ELSE Only({IF ~d.ok THEN cleanPath
             ELSE decodeLoop(d.val, cleanPath, iterations + 1) :
               d \in {decodeURIComponent(cleanPath)}})

sanitizePath(inputPath) ==
  Only({IF p = "" THEN "/"
        ELSE Only({IF Len(rooted) > 1 /\ endsWith(rooted, "/")
                   THEN SubSeq(rooted, 1, Len(rooted) - 1)
                   ELSE rooted :
                     rooted \in
                       {IF startsWith(single, "/") THEN single
                        ELSE "/" \o single :
                          single \in
                            {LET decoded == decodeLoop(p, "", 0)
                                 noNul == replaceClass(decoded, {NUL}, "")
                                 fwd == replaceClass(noNul, {"\\"}, "/")
                             IN  collapseSlashes(fwd)}}}) :
          p \in {inputPath}})

isPathSafe(requestedPath, allowedBasePath) ==
  \E cleanPath \in {sanitizePath(requestedPath)} :
    IF includes(cleanPath, "..") THEN FALSE
    ELSE \E fullPath \in
              {resolve(allowedBasePath,
                       IF startsWith(cleanPath, "/")
                       THEN substring(cleanPath, 1) ELSE cleanPath)} :
           \E relativeToBased \in {relative(allowedBasePath, fullPath)} :
             /\ ~startsWith(relativeToBased, "..")
             /\ ~includes(relativeToBased, "..")
             /\ ~startsWith(resolve(fullPath, ""), "..")

getSecureStaticFilePath(requestedPath) ==
  Only({IF ~isPathSafe(cleanPath, spaDistAbsolute) THEN Null
        ELSE join(spaDistAbsolute,
                  IF startsWith(cleanPath, "/") THEN substring(cleanPath, 1)
                  ELSE cleanPath) :
          cleanPath \in {sanitizePath(requestedPath)}})

UnsafeFileChars == {"/", "\\", ":", "*", "?", "\"", "<", ">", "|"}

\* a cache that mirrors the directories of the path
nestedCacheFilePath(urlPath) ==
  Only({IF ~isPathSafe(cleanPath, cacheDirAbsolute) THEN Null
        ELSE join(cacheDirAbsolute,
                  IF cleanPath = "/" THEN "index.html"
                  ELSE substring(cleanPath, 1) \o ".html") :
          cleanPath \in {sanitizePath(urlPath)}})

getDiskCacheFilePath(urlPath) ==
  Only({IF ~isPathSafe(cleanPath, cacheDirAbsolute) THEN Null
        ELSE join(cacheDirAbsolute,
                  IF cleanPath = "/" THEN "index.html"
                  ELSE replaceClass(substring(cleanPath, 1),
                                    UnsafeFileChars, "_") \o ".html") :
          cleanPath \in {sanitizePath(urlPath)}})

(***************************************************************************)
(* Route classifier.  compileCachePatterns turns each pattern into an      *)
(* anchored, case-insensitive regular expression: a pattern without        *)
(* wildcards is matched literally, otherwise * becomes .* and ? becomes .  *)
(* (which does not match a line terminator).  A compiled matcher is the    *)
(* sequence of the alternatives, each a sequence of regex atoms.           *)
(***************************************************************************)
LineTerminators == {"\n", "\r"}

Lit(c) == [k |-> "lit", c |-> c]
AnyStar == [k |-> "star", c |-> ""]
AnyOne == [k |-> "any", c |-> ""]

compilePattern(pattern) ==
  Only({IF "*" \notin {cs[i] : i \in 1..Len(cs)}
           /\ "?" \notin {cs[i] : i \in 1..Len(cs)}
        THEN Tuple([i \in 1..Len(cs) |-> Lit(cs[i])])
        ELSE Tuple([i \in 1..Len(cs) |->
                      IF cs[i] = "*" THEN AnyStar
                      ELSE IF cs[i] = "?" THEN AnyOne
                      ELSE Lit(cs[i])]) : cs \in {Chars(pattern)}})

\* an empty list compiles to /^$^/, which matches nothing
compileCachePatterns(patterns) ==
  Tuple([i \in 1..Len(patterns) |-> compilePattern(patterns[i])])

\* whether the atoms from a on match the characters from i on, exactly
atomsMatch(atoms, cs) ==
  LET go[a \in 1..(Len(atoms) + 1), i \in 1..(Len(cs) + 1)] ==
        IF a > Len(atoms) THEN i > Len(cs)
        ELSE IF atoms[a].k = "star"
             THEN \E j \in i..(Len(cs) + 1) :
                    /\ \A k \in i..(j - 1) : cs[k] \notin LineTerminators
                    /\ go[a + 1, j]
        ELSE IF atoms[a].k = "any"
             THEN /\ i <= Len(cs)
                  /\ cs[i] \notin LineTerminators
                  /\ go[a + 1, i + 1]
        ELSE /\ i <= Len(cs)
             /\ toLowerChar(cs[i]) = toLowerChar(atoms[a].c)
             /\ go[a + 1, i + 1]
  IN  go[1, 1]

\* REGEX.test(path) for a compiled matcher
regexTest(compiled, path) ==
  \E cs \in {Chars(path)} :
    \E i \in 1..Len(compiled) : atomsMatch(compiled[i], cs)

\* a shouldCachePath that forgets the exclusion list
shouldCacheIgnoringExclusions(path, cacheRoutes, notCacheRoutes) ==
  IF path = "/" THEN \E i \in 1..Len(cacheRoutes) : cacheRoutes[i] = "/"
  ELSE \E c \in {compileCachePatterns(cacheRoutes)} : regexTest(c, path)

shouldCachePath(path, cacheRoutes, notCacheRoutes) ==
  IF path = "/" THEN \E i \in 1..Len(cacheRoutes) : cacheRoutes[i] = "/"
  ELSE LET matchesCache ==
             \E c \in {compileCachePatterns(cacheRoutes)} : regexTest(c, path)
           matchesNoCache ==
             \E c \in {compileCachePatterns(notCacheRoutes)} :
               regexTest(c, path)
       IN  matchesCache /\ ~matchesNoCache

isStaticAsset(path) ==
  \E lastDot \in {lastIndexOf(path, ".")},
     lastSlash \in {lastIndexOf(path, "/")} :
    LET path_difference == Len(path) - lastDot
    IN  IF lastDot = -1 \/ includes(path, "?") THEN FALSE
        ELSE lastDot > lastSlash /\ path_difference < 6 /\ path_difference > 1

(***************************************************************************)
(* Bot classifier.                                                         *)
(***************************************************************************)
botSignatures ==
  {"googlebot", "bingbot", "slurp", "duckduckbot", "baiduspider",
   "yandexbot", "facebookexternalhit", "twitterbot", "linkedinbot",
   "whatsapp", "telegrambot", "ahrefsbot", "semrushbot", "mj12bot",
   "dotbot", "rogerbot", "exabot", "facebot", "ia_archiver", "crawler",
   "spider", "scraper", "curl", "wget", "python-requests", "node-fetch",
   "axios"}

WordChars ==
  {LowerLetters[i] : i \in 1..26} \cup {UpperLetters[i] : i \in 1..26}
    \cup {"0", "1", "2", "3", "4", "5", "6", "7", "8", "9", "_"}

\* /bot\b/i : "bot" followed by a non-word character or the end of input
botWord(ua) ==
  \E lc \in {toLowerCase(ua)} :
    \E i \in 1..(Len(lc) - 2) :
      /\ SubSeq(lc, i, i + 2) = "bot"
      /\ (i + 3 > Len(lc) \/ SubSeq(lc, i + 3, i + 3) \notin WordChars)

\* a classifier that takes every client for a bot
everyoneIsBot(userAgent) == TRUE

isCrawlerOrBot(userAgent) ==
  IF userAgent = "" THEN FALSE
  ELSE \/ \E lc \in {toLowerCase(userAgent)} :
            \E sig \in botSignatures : includes(lc, sig)
       \/ botWord(userAgent)

(***************************************************************************)
(* Memory cache: a Map iterates in insertion order, so it is modelled as   *)
(* the sequence of its entries, oldest first.  A value is a BunFile, a     *)
(* lazy reference to a file path.                                          *)
(***************************************************************************)
cacheKeys(cache) == {cache[i].key : i \in 1..Len(cache)}

cacheHas(cache, path) == path \in cacheKeys(cache)

cacheGet(cache, path) ==
  cache[CHOOSE i \in 1..Len(cache) : cache[i].key = path].file

\* Map.prototype.delete
cacheDelete(cache, path) == SelectSeq(cache, LAMBDA e : e.key # path)

\* an addToMemoryCache that never evicts
addWithoutEviction(cache, path, content, limit) ==
  Append(IF cacheHas(cache, path) THEN cacheDelete(cache, path) ELSE cache,
         [key |-> path, file |-> content])

\* an addToMemoryCache that evicts the newest entry instead of the oldest
addEvictingNewest(cache, path, content, limit) ==
  LET removed == IF cacheHas(cache, path) THEN cacheDelete(cache, path)
                 ELSE cache
      added == Append(removed, [key |-> path, file |-> content])
  IN  IF Len(added) > limit THEN SubSeq(added, 1, Len(added) - 1) ELSE added

\* an addToMemoryCache that overwrites the entry of a cached key in place
addKeepingPosition(cache, path, content, limit) ==
  LET added == IF cacheHas(cache, path)
               THEN [i \in 1..Len(cache) |->
                       IF cache[i].key = path
                       THEN [key |-> path, file |-> content] ELSE cache[i]]
               ELSE Append(cache, [key |-> path, file |-> content])
  IN  IF Len(added) > limit THEN Tail(added) ELSE added

addToMemoryCache(cache, path, content, limit) ==
  LET removed == IF cacheHas(cache, path) THEN cacheDelete(cache, path)
                 ELSE cache
      added == Append(removed, [key |-> path, file |-> content])
  IN  IF Len(added) > limit THEN Tail(added) ELSE added

(***************************************************************************)
(* Trust boundary validation settings (config.max_content_length,          *)
(* max_title_length, allowed_tags, max_tag_ratio as a fraction).  The two  *)
(* length limits are scaled down so that the inputs of the model can       *)
(* exceed them; the whitelist and the ratio are the defaults.              *)
(***************************************************************************)
max_content_length == 64

max_title_length == 40

allowed_tags ==
  {"div", "span", "p", "h1", "h2", "h3", "h4", "h5", "h6", "a", "img", "ul",
   "ol", "li", "br", "strong", "em", "b", "i", "section", "article",
   "header", "footer", "nav", "main", "table", "tr", "td", "th", "thead",
   "tbody", "tfoot", "form", "input", "button", "label", "select", "option",
   "textarea", "hr"}

\* max_tag_ratio = 0.7 = max_tag_ratio_num / max_tag_ratio_den
max_tag_ratio_num == 7

max_tag_ratio_den == 10

(***************************************************************************)
(* Regular expression helpers over a sequence of characters.               *)
(***************************************************************************)
Letters == {LowerLetters[i] : i \in 1..26} \cup {UpperLetters[i] : i \in 1..26}

Digits == {"0", "1", "2", "3", "4", "5", "6", "7", "8", "9"}

Whitespace == {" ", "\t", "\n", "\r"}

\* the literal lit occurs in cs at index i
litAt(cs, i, lit) ==
  \E k \in {i}, l \in {lit} :
    /\ k >= 1
    /\ k + Len(l) - 1 <= Len(cs)
    /\ \A j \in 1..Len(l) : cs[k + j - 1] = l[j]

\* smallest index >= from holding a character of set, 0 when there is none
firstIn(cs, set, from) ==
  Only({First({j \in from..Len(cs) : cs[j] \in S}) : S \in {set}})

\* smallest index >= from where lit occurs, 0 when there is none
firstLit(cs, lit, from) ==
  Only({First({j \in from..Len(cs) : litAt(cs, j, l)}) : l \in {lit}})

\* index of the last character of the longest run of set starting at from
\* (from - 1 when the run is empty)
runEnd(cs, set, from) ==
  Only({IF stop = 0 THEN Len(cs) ELSE stop - 1 :
          stop \in {First({j \in from..Len(cs) : cs[j] \notin S}) :
                      S \in {set}}})

\* \b between index i - 1 and index i
wordBoundary(cs, i) ==
  \E k \in {i} :
    LET before == k - 1 >= 1 /\ k - 1 <= Len(cs) /\ cs[k - 1] \in WordChars
        after == k >= 1 /\ k <= Len(cs) /\ cs[k] \in WordChars
    IN  before # after

\* String.prototype.trim
trimCs(cs) ==
  Only({Only({IF keep = {} THEN <<>>
              ELSE SubSeq(v, First(keep), Last(keep)) :
                keep \in {{j \in 1..Len(v) : v[j] \notin Whitespace}}}) :
          v \in {cs}})

(***************************************************************************)
(* Stage 1: length.                                                        *)
(***************************************************************************)
Valid == [isValid |-> TRUE, reason |-> ""]

Invalid(reason) == [isValid |-> FALSE, reason |-> reason]

validateContentLength(content) ==
  IF Len(content) > max_content_length THEN Invalid("Content too large")
  ELSE Valid

(***************************************************************************)
(* Stage 2: structure.  A tag token is "<", an optional "/", a letter,     *)
(* letters and digits up to a word boundary, then everything up to the     *)
(* first ">".                                                              *)
(***************************************************************************)
selfClosingTags == {"br", "img", "input", "hr", "meta", "link"}

\* the match of tagPattern that starts at index i, if there is one
tagAt(cs, i) ==
  Only({Only({Only({LET ok == /\ i <= Len(cs) /\ cs[i] = "<"
                              /\ nameFrom <= Len(cs)
                              /\ cs[nameFrom] \in Letters
                              /\ wordBoundary(cs, nameTo + 1)
                              /\ close # 0
                    IN  [ok |-> ok,
                         closing |-> nameFrom = i + 2,
                         tagName |-> IF ok
                                     THEN Str(lower(SubSeq(cs, nameFrom,
                                                           nameTo)))
                                     ELSE "",
                         last |-> close,
                         selfClosed |-> ok /\ cs[close - 1] = "/"] :
                      close \in {firstIn(cs, {">"}, nameTo + 1)}}) :
                nameTo \in {runEnd(cs, Letters \cup Digits, nameFrom)}}) :
          nameFrom \in {IF litAt(cs, i, <<"<", "/">>) THEN i + 2
                        ELSE i + 1}})

\* the tag loop: k is the start of the next tag token at or after i
RECURSIVE structureScan(_, _, _)
structureScan(cs, i, openTags) ==
  Only({IF k = 0
        THEN IF open # <<>> THEN Invalid("Unclosed HTML tags") ELSE Valid
        ELSE Only({IF t.tagName \notin allowed_tags
                   THEN Invalid("Disallowed HTML tag")
                   ELSE IF t.closing
                        THEN IF open = <<>> \/ open[Len(open)] # t.tagName
                             THEN Invalid("Mismatched HTML tags")
                             ELSE structureScan(cs, t.last + 1,
                                                SubSeq(open, 1, Len(open) - 1))
                   ELSE IF t.selfClosed \/ t.tagName \in selfClosingTags
                        THEN structureScan(cs, t.last + 1, open)
                   ELSE structureScan(cs, t.last + 1,
                                      Append(open, t.tagName)) :
                     t \in {tagAt(cs, k)}}) :
          k \in {First({j \in i..Len(cs) : tagAt(cs, j).ok})},
          open \in {openTags}})

\* a scan that misses a tag at the very start of the content
scanFromSecond(content) ==
  Only({structureScan(cs, 2, <<>>) : cs \in {Chars(content)}})

\* a structure validation that accepts everything
acceptAnyStructure(content) == Valid

validateHtmlStructure(content) ==
  Only({structureScan(cs, 1, <<>>) : cs \in {Chars(content)}})

(***************************************************************************)
(* Stage 3: tag density.  A tag here is "<", at least one character other  *)
(* than ">", then ">".                                                     *)
(***************************************************************************)
\* splits cs into the characters inside tags and the rest; k is the start
\* of the next tag at or after i
tagSplit(cs) ==
  LET go[i \in 1..(Len(cs) + 1)] ==
        Only({IF k = 0
              THEN [tagLength |-> 0, text |-> SubSeq(cs, i, Len(cs))]
              ELSE Only({[tagLength |-> r.tagLength + (close - k + 1),
                          text |-> SubSeq(cs, i, k - 1) \o r.text] :
                           r \in {go[close + 1] :
                                    close \in {firstIn(cs, {">"}, k + 1)}},
                           close \in {firstIn(cs, {">"}, k + 1)}}) :
                k \in {First({j \in i..Len(cs) :
                                /\ cs[j] = "<"
                                /\ firstIn(cs, {">"}, j + 1) > j + 1})}})
  IN  go[1]

\* a density check that also rejects the maximum itself
ratioBelowMaximum(content) ==
  Only({LET tagLength == parts.tagLength
            textLength == Len(trimCs(parts.text))
        IN  IF textLength = 0
            THEN Invalid("Content contains no text, only HTML tags")
            ELSE IF tagLength * max_tag_ratio_den
                      >= max_tag_ratio_num * (tagLength + textLength)
                 THEN Invalid("Tag ratio too high")
                 ELSE Valid :
          parts \in {tagSplit(cs) : cs \in {Chars(content)}}})

validateTagRatio(content) ==
  Only({LET tagLength == parts.tagLength
            textLength == Len(trimCs(parts.text))
        IN  IF textLength = 0
            THEN Invalid("Content contains no text, only HTML tags")
            ELSE IF tagLength * max_tag_ratio_den
                      > max_tag_ratio_num * (tagLength + textLength)
                 THEN Invalid("Tag ratio too high")
                 ELSE Valid :
          parts \in {tagSplit(cs) : cs \in {Chars(content)}}})

(***************************************************************************)
(* Safe pattern matcher.  executeWithTimeout runs the operation and then   *)
(* looks at the clock: when more than the budget has elapsed, or the       *)
(* operation threw, the default is returned instead of the result.         *)
(***************************************************************************)
executeWithTimeout(result, timedOut, defaultValue) ==
  IF timedOut THEN defaultValue ELSE result

\* the default budget of a guarded operation, in milliseconds
timeoutMs == 100

\* a call that hands back whatever the operation gives, and its error
unguardedCall(cost, threw, result, defaultValue) ==
  [value |-> result, elapsed |-> cost, warned |-> FALSE, propagated |-> threw]

\* one guarded call (test, exec or replace) whose operation takes cost
\* milliseconds and may throw: the operation runs to its end, then the
\* clock is read; the catch swallows the error.  elapsed is the time the
\* caller waited
guardedCall(cost, threw, result, defaultValue) ==
  [value |-> executeWithTimeout(result, threw \/ cost > timeoutMs,
                                defaultValue),
   elapsed |-> cost,
   warned |-> threw \/ cost > timeoutMs,
   propagated |-> FALSE]

safeReplace(str, result, timedOut) == IF timedOut THEN str ELSE result

(***************************************************************************)
(* Stage 4: dangerous patterns.  Every pattern is case-insensitive, so the *)
(* matchers below work on the lower-cased characters lc of the content.    *)
(***************************************************************************)
Quotes == {"'", "\""}

LowerSet == {LowerLetters[i] : i \in 1..26}

\* index after the whitespace run that starts at i
skipWs(lc, i) == runEnd(lc, Whitespace, i) + 1

\* a lazy ".*?" followed by the character q: index of the first q at or
\* after from with no line terminator before it, 0 when there is none
lazyUpTo(lc, q, from) ==
  Only({Only({IF c # 0 /\ \A j \in f..(c - 1) : lc[j] \notin LineTerminators
              THEN c ELSE 0 : c \in {firstIn(lc, {q}, f)}}) : f \in {from}})

\* "<name", lazily anything up to ">", lazily anything up to "</name>":
\* index of the last character of the match that starts at i, else 0
blockEnd(lc, i, name) ==
  Only({IF ~litAt(lc, i, open) THEN 0
        ELSE Only({IF gt = 0 THEN 0
                   ELSE Only({IF end = 0 THEN 0 ELSE end + Len(close) - 1 :
                                end \in {firstLit(lc, close, gt + 1)}}) :
                     gt \in {firstIn(lc, {">"}, i + Len(open))}}) :
          open \in {<<"<">> \o Chars(name)},
          close \in {<<"<", "/">> \o Chars(name) \o <<">">>}})

\* "on", letters, "=", whitespace, a quote, lazily anything on the line up
\* to the same quote: index of the closing quote for a match at i, else 0
handlerEnd(lc, i) ==
  IF ~litAt(lc, i, <<"o", "n">>) THEN 0
  ELSE Only({IF nameTo < i + 2 \/ nameTo + 1 > Len(lc) \/ lc[nameTo + 1] # "="
             THEN 0
             ELSE Only({IF q <= Len(lc) /\ lc[q] \in Quotes
                        THEN lazyUpTo(lc, lc[q], q + 1)
                        ELSE 0 : q \in {skipWs(lc, nameTo + 2)}}) :
               nameTo \in {runEnd(lc, LowerSet, i + 2)}})

JsScheme == Chars("javascript:")

NoMatch == [from |-> 0, to |-> 0]

\* (href|src), whitespace, "=", whitespace, then an optional quote,
\* "javascript:" and lazily anything up to that quote again.  For a match
\* of the attribute that starts at i: [from |-> index of "javascript:",
\* to |-> index of the last character matched]; from = 0 when no match
jsUriAt(lc, i) ==
  Only({IF nameLen = 0 THEN NoMatch
        ELSE Only({IF eq > Len(lc) \/ lc[eq] # "=" THEN NoMatch
                   ELSE Only({LET quoted == /\ q <= Len(lc)
                                            /\ lc[q] \in Quotes
                                            /\ litAt(lc, q + 1, JsScheme)
                                  closing ==
                                    IF quoted
                                    THEN lazyUpTo(lc, lc[q],
                                                  q + 1 + Len(JsScheme))
                                    ELSE 0
                              IN  Only({IF c # 0
                                        THEN [from |-> q + 1, to |-> c]
                                        ELSE IF litAt(lc, q, JsScheme)
                                        THEN [from |-> q,
                                              to |-> q + Len(JsScheme) - 1]
                                        ELSE NoMatch : c \in {closing}}) :
                                q \in {skipWs(lc, eq + 1)}}) :
                     eq \in {skipWs(lc, i + nameLen)}}) :
          nameLen \in {IF litAt(lc, i, Chars("href")) THEN 4
                       ELSE IF litAt(lc, i, Chars("src")) THEN 3 ELSE 0}})

\* "<name", a word boundary, anything but ">", then ">"
openTagAt(lc, i, name) ==
  \E open \in {<<"<">> \o Chars(name)} :
    /\ litAt(lc, i, open)
    /\ wordBoundary(lc, i + Len(open))
    /\ firstIn(lc, {">"}, i + Len(open)) # 0

\* "<form", a word boundary, anything but ">", "action", "=", an optional
\* quote, then "javascript:" or "data:"
formActionAt(lc, i) ==
  /\ litAt(lc, i, Chars("<form"))
  /\ wordBoundary(lc, i + 5)
  /\ \E a \in (i + 5)..Len(lc) :
       /\ \A j \in (i + 5)..(a - 1) : lc[j] # ">"
       /\ litAt(lc, a, Chars("action"))
       /\ \E eq \in {skipWs(lc, a + 6)} :
            /\ eq <= Len(lc) /\ lc[eq] = "="
            /\ \E q \in {skipWs(lc, eq + 1)} :
                 LET scheme(k) == \/ litAt(lc, k, JsScheme)
                                  \/ litAt(lc, k, Chars("data:"))
                 IN  \/ scheme(q)
                     \/ q <= Len(lc) /\ lc[q] \in Quotes /\ scheme(q + 1)

dataHtmlAt(lc, i) ==
  /\ wordBoundary(lc, i)
  /\ litAt(lc, i, Chars("data:"))
  /\ litAt(lc, skipWs(lc, i + 5), Chars("text/html"))

\* the underlying RegExp.test of the n-th dangerous pattern
dangerousTest(n, lc) ==
  \E i \in 1..Len(lc) :
    CASE n = 1 -> blockEnd(lc, i, "script") # 0
      [] n = 2 -> blockEnd(lc, i, "style") # 0
      [] n = 3 -> wordBoundary(lc, i) /\ handlerEnd(lc, i) # 0
      [] n = 4 -> wordBoundary(lc, i) /\ jsUriAt(lc, i).from # 0
      [] n = 5 -> openTagAt(lc, i, "iframe")
      [] n = 6 -> openTagAt(lc, i, "object")
      [] n = 7 -> openTagAt(lc, i, "embed")
      [] n = 8 -> formActionAt(lc, i)
      [] n = 9 -> wordBoundary(lc, i) /\ litAt(lc, i, Chars("vbscript:"))
      [] n = 10 -> dataHtmlAt(lc, i)

dangerousReasons ==
  <<"Script tags not allowed", "Style tags not allowed",
    "Event handlers not allowed", "JavaScript URIs not allowed",
    "Iframe tags not allowed", "Object tags not allowed",
    "Embed tags not allowed", "Dangerous form actions not allowed",
    "VBScript URIs not allowed", "Data HTML URIs not allowed">>

\* timedOut: the patterns whose guarded test exceeded its budget.
\* The first pattern whose guarded test answers true, 0 when none does
firstDangerous(content, timedOut) ==
  Only({First({n \in 1..Len(dangerousReasons) :
                 executeWithTimeout(dangerousTest(n, lc), n \in timedOut,
                                    FALSE)}) :
          lc \in {lower(Chars(content))}})

validateSecurityPatterns(content, timedOut) ==
  Only({IF hit = 0 THEN Valid ELSE Invalid(dangerousReasons[hit]) :
          hit \in {firstDangerous(content, timedOut)}})

\* whether a test of validateSecurityPatterns ran over its budget (and
\* wrote its warning): the patterns are tested up to the first hit
testWarned(content, timedOut) ==
  \E hit \in {firstDangerous(content, timedOut)} :
    \E n \in timedOut : hit = 0 \/ n <= hit

(***************************************************************************)
(* The validation pipeline: all four validations are computed, the first   *)
(* invalid one is reported.                                                *)
(***************************************************************************)
validations(content, timedOut) ==
  <<validateContentLength(content),
    validateHtmlStructure(content),
    validateTagRatio(content),
    validateSecurityPatterns(content, timedOut)>>

\* index of the validation that rejects the content, 0 when none does
rejectingStage(content, timedOut) ==
  Only({First({n \in 1..Len(v) : ~v[n].isValid}) :
          v \in {validations(content, timedOut)}})

isSafeMainContent(content, timedOut) == rejectingStage(content, timedOut) = 0

(***************************************************************************)
(* Sanitizer: four global, case-insensitive replacements through           *)
(* safeReplace, then trim.  cs are the characters, lc their lower case,    *)
(* on which the case-insensitive patterns are matched.                     *)
(***************************************************************************)
\* removes every "<name ...> ... </name>" block; k is the start of the
\* next block at or after i
removeBlocks(cs, name) ==
  Only({LET go[i \in 1..(Len(cs) + 1)] ==
              Only({IF k = 0 THEN SubSeq(cs, i, Len(cs))
                    ELSE SubSeq(cs, i, k - 1)
                           \o go[blockEnd(lc, k, name) + 1] :
                      k \in {First({j \in i..Len(cs) :
                                      blockEnd(lc, j, name) # 0})}})
        IN  go[1] : lc \in {lower(cs)}})

\* the end of the match of whitespace followed by an inline event handler
\* that starts at i, else 0
spacedHandlerEnd(lc, i) ==
  IF lc[i] \in Whitespace THEN handlerEnd(lc, skipWs(lc, i)) ELSE 0

\* replaces whitespace followed by an inline event handler by one space
removeHandlers(cs) ==
  Only({LET go[i \in 1..(Len(cs) + 1)] ==
              Only({IF k = 0 THEN SubSeq(cs, i, Len(cs))
                    ELSE SubSeq(cs, i, k - 1) \o <<" ">>
                           \o go[spacedHandlerEnd(lc, k) + 1] :
                      k \in {First({j \in i..Len(cs) :
                                      spacedHandlerEnd(lc, j) # 0})}})
        IN  go[1] : lc \in {lower(cs)}})

\* for a "<" at i: the javascript: URI of the last href/src attribute that
\* is reached from i without crossing a ">" (the greedy choice)
tagJsUri(lc, i) ==
  IF lc[i] # "<" THEN NoMatch
  ELSE Only({IF h = 0 THEN NoMatch ELSE jsUriAt(lc, h) :
               h \in {Last({g \in (i + 2)..Len(lc) :
                              /\ \A j \in (i + 1)..(g - 1) : lc[j] # ">"
                              /\ jsUriAt(lc, g).from # 0})}})

\* rewrites the javascript: URI of a tag to "#"; k is the start of the
\* next such tag at or after i
rewriteJsUris(cs) ==
  Only({LET go[i \in 1..(Len(cs) + 1)] ==
              Only({IF k = 0 THEN SubSeq(cs, i, Len(cs))
                    ELSE Only({SubSeq(cs, i, m.from - 1) \o <<"#">>
                                 \o go[m.to + 1] : m \in {tagJsUri(lc, k)}}) :
                      k \in {First({j \in i..Len(cs) :
                                      tagJsUri(lc, j).from # 0})}})
        IN  go[1] : lc \in {lower(cs)}})

\* slow: the replacements (1..4) whose safeReplace exceeded its budget
sanitizeHtml(content, slow) ==
  Only({Str(trimCs(c4)) :
    c4 \in {safeReplace(c3, rewriteJsUris(c3), 4 \in slow) :
    c3 \in {safeReplace(c2, removeHandlers(c2), 3 \in slow) :
    c2 \in {safeReplace(c1, removeBlocks(c1, "style"), 2 \in slow) :
    c1 \in {safeReplace(c0, removeBlocks(c0, "script"), 1 \in slow) :
    c0 \in {Chars(content)}}}}}})

(***************************************************************************)
(* Documents.  A document is its text together with the origin of every    *)
(* character: "s" the SPA shell and the server's own templates, "t" the    *)
(* title of a capture, "c" the content of a capture, "f" a static file,    *)
(* "i" the intercept script.                                               *)
(***************************************************************************)
Doc(text, origin) ==
  [html |-> text, taint |-> Tuple([i \in 1..Len(text) |-> origin])]

DocCat(a, b) ==
  Only({[html |-> x.html \o y.html, taint |-> x.taint \o y.taint] :
          x \in {a}, y \in {b}})

DocSub(d, from, to) ==
  Only({[html |-> SubSeq(x.html, f, t), taint |-> SubSeq(x.taint, f, t)] :
          x \in {d}, f \in {from}, t \in {to}})

EmptyDoc == Doc("", "s")

\* doc.replace(lit, repl) for a string pattern: the first occurrence only
replaceFirst(d, lit, repl) ==
  Only({IF at = 0 THEN d
        ELSE DocCat(DocCat(DocSub(d, 1, at - 1), repl),
                    DocSub(d, at + Len(lit), Len(d.html))) :
          at \in {firstLit(cs, Chars(lit), 1) : cs \in {Chars(d.html)}}})

(***************************************************************************)
(* The SPA shell: dist/index.html, and the two variants the server derives *)
(* from it at startup (the capture script and the hard-reload listener are *)
(* abbreviated to one-letter script bodies).                               *)
(***************************************************************************)
indexHtml ==
  Doc("<title>App</title><body><div id=\"root\">..</div></body>", "s")

injectJsScriptContent == "C"

hardReloadScript == "R"

spaHtmlWithInjectScript ==
  replaceFirst(indexHtml, "</body>",
               Doc("<script>" \o injectJsScriptContent \o "</script>\n</body>",
                   "s"))

spaShellHtml ==
  replaceFirst(indexHtml, "</body>",
               Doc("<script>" \o hardReloadScript \o "</script>\n</body>", "s"))

(***************************************************************************)
(* Splicing a capture into the shell.                                      *)
(***************************************************************************)
serverRootSelectors ==
  <<"id=\"root\"", "id=\"app\"", "id=\"__next\"", "data-wrapper=\"app\"",
    "role=\"main\"">>

NoElement == [from |-> 0, openTo |-> 0, to |-> 0, tag |-> ""]

\* the match, starting at index i, of "<" word, lazily non-">", selector,
\* lazily non-">", ">", lazily anything, "</" word ">" : [from, openTo, to,
\* tag], from = 0 when there is no match at i.  cs are the characters of
\* the text, lc their lower case, sel those of the selector.
rootElementAt(cs, lc, sel, i) ==
  IF cs[i] # "<" THEN NoElement
  ELSE Only({
    IF nameTo < i + 1 THEN NoElement
    ELSE Only({
      IF gt = 0 \/ at = 0 \/ at + Len(sel) - 1 >= gt \/ at <= nameTo
      THEN NoElement
      ELSE Only({
        IF close = 0 THEN NoElement
        ELSE [from |-> i, openTo |-> gt, to |-> close + (nameTo - i) + 2,
              tag |-> Str(SubSeq(cs, i + 1, nameTo))] :
          close \in {firstLit(lc, <<"<", "/">> \o SubSeq(lc, i + 1, nameTo)
                                    \o <<">">>, gt + 1)}}) :
        gt \in {firstIn(cs, {">"}, i + 1)},
        at \in {firstLit(cs, sel, i + 1)}}) :
      nameTo \in {runEnd(cs, WordChars, i + 1)}})

\* the first match of the selector's pattern in the text
rootElement(text, selector) ==
  Only({Only({Only({IF k = 0 THEN NoElement
                    ELSE rootElementAt(cs, lc, sel, k) :
                      k \in {First({i \in 1..Len(cs) :
                                      rootElementAt(cs, lc, sel, i).from
                                        # 0})}}) :
                lc \in {lower(cs)}}) :
          cs \in {Chars(text)}, sel \in {Chars(selector)}})

\* the fallback pattern: "<body", lazily non-">", ">", lazily anything,
\* "</body>", compared in lower case
bodyElementAt(lc, i) ==
  IF ~litAt(lc, i, Chars("<body")) THEN NoElement
  ELSE Only({IF gt = 0 THEN NoElement
             ELSE Only({IF close = 0 THEN NoElement
                        ELSE [from |-> i, openTo |-> gt, to |-> close + 6,
                              tag |-> "body"] :
                          close \in {firstLit(lc, Chars("</body>"), gt + 1)}}) :
               gt \in {firstIn(lc, {">"}, i + 5)}})

bodyElement(text) ==
  Only({Only({IF k = 0 THEN NoElement ELSE bodyElementAt(lc, k) :
                k \in {First({i \in 1..Len(lc) :
                                bodyElementAt(lc, i).from # 0})}}) :
          lc \in {lower(Chars(text))}})

\* the first selector of serverRootSelectors found in the shell; one past
\* the last selector stands for the fallback pattern, which is returned
\* untested
findSpaRootElementRegex(htmlContent) ==
  Only({IF n = 0 THEN Len(serverRootSelectors) + 1 ELSE n :
          n \in {First({m \in 1..Len(serverRootSelectors) :
                          rootElement(htmlContent,
                                      serverRootSelectors[m]).from # 0})}})

\* finalHtml.replace(rootElementRegex, replacer): the opening tag is kept,
\* the element's content is replaced by the sanitized capture.  The
\* fallback pattern has no capture group, so the replacer's second
\* argument is the offset of the match: its opening-tag lookup fails and
\* the element comes out as "<offset>" content "</offset>".
spliceContent(d, sanitizedMainContent) ==
  Only({
    IF n <= Len(serverRootSelectors)
    THEN Only({DocCat(DocCat(DocCat(DocSub(d, 1, m.openTo),
                                    Doc(sanitizedMainContent, "c")),
                             Doc("</" \o m.tag \o ">", "s")),
                      DocSub(d, m.to + 1, Len(d.html))) :
                 m \in {rootElement(d.html, serverRootSelectors[n])}})
    ELSE Only({IF b.from = 0 THEN d
               ELSE Only({DocCat(DocCat(DocCat(DocCat(
                                   DocSub(d, 1, b.from - 1),
                                   Doc("<" \o tagName \o ">", "s")),
                                   Doc(sanitizedMainContent, "c")),
                                   Doc("</" \o tagName \o ">", "s")),
                                 DocSub(d, b.to + 1, Len(d.html))) :
                            tagName \in {ToString(b.from - 1)}}) :
                 b \in {bodyElement(d.html)}}) :
      n \in {findSpaRootElementRegex(d.html)}})

\* a title that is not escaped at all
rawTitle(title) == title

\* title.replace(/&/g, "&amp;").replace(/</g, "&lt;").replace(/>/g, "&gt;")
escapeTitle(title) ==
  Only({Str([i \in 1..Len(cs) |->
               CASE cs[i] = "&" -> "&amp;"
                 [] cs[i] = "<" -> "&lt;"
                 [] cs[i] = ">" -> "&gt;"
                 [] OTHER -> cs[i]]) : cs \in {Chars(title)}})

\* String.prototype.replace expands $$, $& (the match) and $' (the text
\* after the match) in a replacement string; the title pattern has no
\* capture group.  The dollar-backquote form (the text before the match)
\* is left out: the alphabet of the model has no backquote.  The expansion
\* goes from one "$" of the replacement to the next.
RECURSIVE expandReplacement(_, _, _, _)
expandReplacement(repl, i, matched, after) ==
  IF i > Len(repl.html) THEN EmptyDoc
  ELSE Only({
    IF d = 0 \/ d = Len(repl.html) THEN DocSub(repl, i, Len(repl.html))
    ELSE Only({
      IF two = "$$"
      THEN DocCat(DocSub(repl, i, d),
                  expandReplacement(repl, d + 2, matched, after))
      ELSE IF two = "$&"
      THEN DocCat(DocCat(DocSub(repl, i, d - 1), matched),
                  expandReplacement(repl, d + 2, matched, after))
      ELSE IF two = "$'"
      THEN DocCat(DocCat(DocSub(repl, i, d - 1), after),
                  expandReplacement(repl, d + 2, matched, after))
      ELSE DocCat(DocSub(repl, i, d),
                  expandReplacement(repl, d + 1, matched, after)) :
        two \in {SubSeq(repl.html, d, d + 1)}}) :
      d \in {firstIn(Chars(repl.html), {"$"}, i)}})

\* the match of /<title>.*?<\/title>/i that starts at index i: [from, to],
\* from = 0 when there is none.  lc are the lower-cased characters of the
\* text.
titleElementAt(lc, i) ==
  IF ~litAt(lc, i, Chars("<title>")) THEN [from |-> 0, to |-> 0]
  ELSE Only({IF e # 0 /\ \A j \in (i + 7)..(e - 1) :
                            lc[j] \notin LineTerminators
             THEN [from |-> i, to |-> e + 7]
             ELSE [from |-> 0, to |-> 0] :
               e \in {firstLit(lc, Chars("</title>"), i + 7)}})

titleElement(text) ==
  Only({Only({IF k = 0 THEN [from |-> 0, to |-> 0]
              ELSE titleElementAt(lc, k) :
                k \in {First({i \in 1..Len(lc) :
                                titleElementAt(lc, i).from # 0})}}) :
          lc \in {lower(Chars(text))}})

\* finalHtml.replace(/<title>.*?<\/title>/i, "<title>" + title + "</title>")
replaceTitle(d, title) ==
  Only({
    IF m.from = 0 THEN d
    ELSE Only({DocCat(DocCat(DocSub(d, 1, m.from - 1),
                             expandReplacement(repl, 1, matched, after)),
                      after) :
                 matched \in {DocSub(d, m.from, m.to)},
                 after \in {DocSub(d, m.to + 1, Len(d.html))},
                 repl \in {DocCat(DocCat(Doc("<title>", "s"), Doc(title, "t")),
                                  Doc("</title>", "s"))}}) :
      m \in {titleElement(d.html)}})

\* the document a capture puts together before the transform step
buildFinalHtml(title, sanitizedMainContent) ==
  Only({IF title # "" THEN replaceTitle(spliced, escapeTitle(title))
        ELSE spliced :
          spliced \in {spliceContent(spaShellHtml, sanitizedMainContent)}})

(***************************************************************************)
(* Requests.  A request is its method, its target (path and query), its    *)
(* User-Agent and Authorization headers ("" when absent) and its body.  A  *)
(* body is no JSON at all ("malformed") or an object of three fields, each *)
(* a JSON value [t, v]: its type and, for a string, its text.              *)
(***************************************************************************)
JStr(s) == [t |-> "string", v |-> s]
JNum(s) == [t |-> "number", v |-> s]
JAbsent == [t |-> "undefined", v |-> ""]

\* !value for a JSON value
falsy(j) ==
  \/ j.t = "undefined"
  \/ j.t = "string" /\ j.v = ""
  \/ j.t = "number" /\ j.v = "0"

Json(title, content, path) ==
  [json |-> "object", title |-> title, content |-> content, path |-> path]

Malformed ==
  [json |-> "malformed", title |-> JAbsent, content |-> JAbsent,
   path |-> JAbsent]

Request(method, target, ua, auth, body) ==
  [method |-> method, target |-> target, ua |-> ua, auth |-> auth,
   body |-> body]

Origin == "http://sterad.test"

\* new URL(request.url): the path is cut at the query, a backslash counts
\* as a slash, and the dot segments (also spelled %2e) are folded away
dotSegments(segs) ==
  LET go[i \in 0..Len(segs)] ==
        \* the folding of the first i segments
        IF i = 0 THEN <<>>
        ELSE Only({
          LET last == i = Len(segs)
              popped == IF acc = <<>> THEN acc
                        ELSE SubSeq(acc, 1, Len(acc) - 1)
          IN  IF seg \in {".", "%2e"}
              THEN (IF last THEN Append(acc, "") ELSE acc)
              ELSE IF seg \in {"..", ".%2e", "%2e.", "%2e%2e"}
              THEN (IF last THEN Append(popped, "") ELSE popped)
              ELSE Append(acc, segs[i]) :
            seg \in {toLowerCase(segs[i])}, acc \in {go[i - 1]}})
  IN  go[Len(segs)]

\* index of the "?" that starts the query of a request target, 0 if none
queryAt(target) == firstIn(Chars(target), {"?"}, 1)

urlPathname(target) ==
  Only({"/" \o relJoin(dotSegments(segs)) :
          segs \in {split(substring(replaceClass(p, {"\\"}, "/"), 1), "/") :
                      p \in {IF q = 0 THEN target
                             ELSE SubSeq(target, 1, q - 1) :
                               q \in {queryAt(target)}}}})

urlSearch(target) ==
  Only({IF q = 0 THEN "" ELSE SubSeq(target, q, Len(target)) :
          q \in {queryAt(target)}})

\* request.url
requestUrl(target) == Origin \o urlPathname(target) \o urlSearch(target)

isCaptureUrl(r) == endsWith(requestUrl(r.target), "/__sterad_capture")

(***************************************************************************)
(* Responses: status, body (a document) and headers (name, value pairs).   *)
(***************************************************************************)
securityHeaders ==
  {<<"Content-Security-Policy",
     "default-src 'self'; script-src 'self' 'unsafe-inline'">>,
   <<"X-Content-Type-Options", "nosniff">>,
   <<"X-Frame-Options", "DENY">>,
   <<"Strict-Transport-Security", "max-age=63072000">>}

Response(status, body, headers) ==
  [status |-> status, body |-> body, headers |-> headers]

\* no response yet: the handler is suspended at an await
NoRes == Response(0, EmptyDoc, {})

confirmation == Doc("Content captured and cached successfully", "s")

\* a reply that tells the client of the rejection
rejectionNotice == Response(400, Doc("Rejected", "s"), securityHeaders)

\* the replies of the capture handler, one per exit
fieldsReply == Response(200, confirmation, securityHeaders)
titleReply == Response(200, confirmation, securityHeaders)
pathReply == Response(200, confirmation, securityHeaders)
unsafeReply == Response(200, confirmation, securityHeaders)
capturedReply == Response(200, confirmation, securityHeaders)
failedReply == Response(200, confirmation, securityHeaders)

\* the replies of the delete handler
unauthorizedReply ==
  Response(401, Doc("Unauthorized", "s"),
           securityHeaders \cup {<<"WWW-Authenticate", "Bearer">>})
deletedReply == Response(200, confirmation, securityHeaders)

\* the last return of fetch, and the error callback of Bun.serve
fallbackReply == Response(200, confirmation, securityHeaders)
errorReply == Response(200, confirmation, securityHeaders)

\* a refusal with another status
forbiddenReply == Response(403, Doc("Forbidden", "s"), securityHeaders)

notFoundReply == Response(404, Doc("Not Found", "s"), securityHeaders)

\* an html reply without the security headers
bareHtmlReply(doc) == Response(200, doc, {<<"Content-Type", "text/html">>})

htmlReply(doc) ==
  Response(200, doc, securityHeaders \cup {<<"Content-Type", "text/html">>})

\* BunFile.type: the MIME type that goes with the extension of the path
fileType(file) ==
  IF endsWith(file, ".html") THEN "text/html;charset=utf-8"
  ELSE IF endsWith(file, ".js") THEN "text/javascript;charset=utf-8"
  ELSE IF endsWith(file, ".txt") THEN "text/plain;charset=utf-8"
  ELSE "application/octet-stream"

\* new Response(file, ...) for a BunFile: the file is read when the
\* response is sent.  A file that is not there fails the send: the runtime
\* hands the failure to the error callback, or sends an empty body.
sendFile(file, files) ==
  IF file \in DOMAIN files
  THEN {Response(200, files[file],
                 securityHeaders \cup {<<"Content-Type", fileType(file)>>})}
  ELSE {errorReply,
        Response(200, EmptyDoc,
                 securityHeaders \cup {<<"Content-Type", fileType(file)>>})}

(***************************************************************************)
(* Bearer credentials: jwt.verify checks the signature against the secret, *)
(* the expiry, the issuer and the audience.  A token is modelled by what   *)
(* it was signed with and what it claims; any other text is no token.      *)
(***************************************************************************)
Tokens ==
  [t \in {"good", "forged", "expired", "foreign"} |->
     [key |-> IF t = "forged" THEN "another-secret" ELSE "the-secret",
      iss |-> "sterad",
      aud |-> IF t = "foreign" THEN "someone-else" ELSE "sterad-admin",
      expired |-> t = "expired"]]

jwtVerify(token, secret, issuer, audience) ==
  /\ token \in DOMAIN Tokens
  /\ Tokens[token].key = secret
  /\ ~Tokens[token].expired
  /\ Tokens[token].iss = issuer
  /\ Tokens[token].aud = audience

\* loadJWTConfig: null (present = FALSE) without JWT_SECRET
loadJWTConfig(secret) ==
  [present |-> secret # "", secret |-> secret, issuer |-> "sterad",
   audience |-> "sterad-admin"]

\* a check that takes any bearer credential at its word
acceptAnyBearer(authHeader, jwtConfig) == startsWith(authHeader, "Bearer ")

validateBearerToken(authHeader, jwtConfig) ==
  IF ~jwtConfig.present THEN FALSE
  ELSE IF authHeader = "" \/ ~startsWith(authHeader, "Bearer ") THEN FALSE
  ELSE jwtVerify(substring(authHeader, 7), jwtConfig.secret,
                 jwtConfig.issuer, jwtConfig.audience)

(***************************************************************************)
(* Configuration (sterad.toml and the environment).                        *)
(***************************************************************************)
Config(routes, notRoutes, limit, mode, script, secret) ==
  [cache_routes |-> routes, not_cache_routes |-> notRoutes,
   memory_cache_limit |-> limit, serve_cached_to |-> mode,
   intercept_script |-> script, jwtConfig |-> loadJWTConfig(secret)]

\* the deployments under study: "" stands for an unset option
Profiles ==
  {Config(<<"/*">>, <<"/admin/*">>, 2, "all_clients", "", "the-secret"),
   Config(<<"/*">>, <<"/admin/*">>, 1, "crawlers_only", "hook.ts", "")}

(***************************************************************************)
(* The files on disk at startup: the distribution directory, and one file  *)
(* next to it that no request may reach.                                   *)
(***************************************************************************)
put(f, k, v) == [x \in DOMAIN f \cup {k} |-> IF x = k THEN v ELSE f[x]]

drop(f, k) == [x \in DOMAIN f \ {k} |-> f[x]]

InitialDisk ==
  [f \in {"/srv/dist/index.html", "/srv/dist/app.js",
          "/srv/dist/admin/app.js", "/srv/secret.txt"} |->
     IF f = "/srv/dist/index.html" THEN indexHtml
     ELSE IF f = "/srv/secret.txt" THEN Doc("key", "f")
     ELSE Doc("x=1", "f")]

(***************************************************************************)
(* The requests of the model.                                              *)
(***************************************************************************)
Browser == "Mozilla/5.0"
Crawler == "Googlebot/2.1"

NoBody == Malformed

GetTargets ==
  {"/", "/about", "/p?q=1", "/a%20b", "/admin/x", "/admin/a%0Ab",
   "/admin/app.js", "/app.js", "/missing.js", "/%252e%252e/secret.txt",
   "/%252e%252e/%25", "/%"}

GetRequests ==
  {Request("GET", t, ua, "", NoBody) : t \in GetTargets, ua \in {Browser, Crawler}}

okContent == "<p>hello</p>"
scriptContent == "<script>alert(1)</script><p>hi</p>"
handlerContent == "<p onclick=\"x\">hello world here</p>"
evilTitle == "</title><script>x</script><title>"
longTitle == "0123456789012345678901234567890123456789X"

Capture(title, content, path) == Json(JStr(title), JStr(content), JStr(path))

PostBodies ==
  {Capture("Hi", okContent, "/about"),
   Capture(evilTitle, okContent, "/about"),
   Capture("$'", okContent, "/about"),
   Capture("Hi", okContent, "/p?q=1"),
   Capture("Hi", okContent, "/a%20b"),
   Capture("Hi", okContent, "/admin/x"),
   Capture("Hi", scriptContent, "/about"),
   Capture("Hi", handlerContent, "/h"),
   Capture("Hi", okContent, "/../x"),
   Capture("Hi", okContent, "/%2e%2e/x"),
   Capture("Hi", okContent, "/%252e%252e/x"),
   Capture("Hi", okContent, "/%25252e%25252e/x"),
   Capture("Hi", okContent, "/%252e%252e/%25"),
   Capture("Hi", okContent, "/%"),
   Capture(longTitle, okContent, "/about"),
   Json(JNum("1"), JStr(okContent), JStr("/about")),
   Json(JStr("Hi"), JStr(""), JStr("/about")),
   Json(JStr("Hi"), JStr(okContent), JAbsent),
   Malformed}

PostRequests ==
  {Request("POST", "/__sterad_capture", Browser, "", b) : b \in PostBodies}

DeleteBodies ==
  {Json(JAbsent, JAbsent, JStr(p)) :
     p \in {"/about", "/app.js", "/p?q=1", "/a%20b", "/../x", "/%"}}
    \cup {Json(JAbsent, JAbsent, JAbsent), Malformed}

DeleteRequests ==
  {Request("DELETE", "/__sterad_capture", Browser, "Bearer good", b) :
     b \in DeleteBodies}
    \cup {Request("DELETE", "/__sterad_capture", Browser, a,
                  Json(JAbsent, JAbsent, JStr("/about"))) :
            a \in {"", "Basic good", "Bearer forged", "Bearer expired",
                   "Bearer foreign"}}

OtherRequests ==
  {Request("PUT", "/__sterad_capture", Browser, "", NoBody),
   Request("POST", "/other", Browser, "", Capture("Hi", okContent, "/about"))}

Requests == GetRequests \cup PostRequests \cup DeleteRequests \cup OtherRequests

\* the outcomes of the clock checks of the safe matcher: which of the ten
\* dangerous-pattern tests, and which of the four replacements, ran over
\* their budget
TimedOutChoices == {{}, 1..Len(dangerousReasons)}
SlowChoices == {{}, {3}}

(***************************************************************************)
(* The pure part of each handler: what it computes from the request alone. *)
(***************************************************************************)
\* a GET that does not look for static assets
getRouteWithoutStatic(r, cfg) ==
  Only({[decoded |-> d.ok,
         path |-> d.val,
         shouldServeCached |->
           \/ cfg.serve_cached_to = "all_clients"
           \/ cfg.serve_cached_to = "crawlers_only" /\ isCrawlerOrBot(r.ua),
         static |-> FALSE,
         secureFilePath |-> Null,
         isCacheableRoute |->
           d.ok /\ shouldCachePath(d.val, cfg.cache_routes,
                                   cfg.not_cache_routes),
         diskCacheFilePath |->
           IF d.ok THEN getDiskCacheFilePath(d.val) ELSE Null] :
          d \in {decodeURI(urlPathname(r.target))}})

\* fetch, GET: lines 975-980 and the values the branches test
getRoute(r, cfg) ==
  Only({[decoded |-> d.ok,
         path |-> d.val,
         shouldServeCached |->
           \/ cfg.serve_cached_to = "all_clients"
           \/ cfg.serve_cached_to = "crawlers_only" /\ isCrawlerOrBot(r.ua),
         static |-> d.ok /\ isStaticAsset(d.val),
         secureFilePath |->
           IF d.ok THEN getSecureStaticFilePath(d.val) ELSE Null,
         isCacheableRoute |->
           d.ok /\ shouldCachePath(d.val, cfg.cache_routes,
                                   cfg.not_cache_routes),
         diskCacheFilePath |->
           IF d.ok THEN getDiskCacheFilePath(d.val) ELSE Null] :
          d \in {decodeURI(urlPathname(r.target))}})

\* fetch, POST: the checks in their order, up to the resolved cache file
capturePlan(body, timedOut, slow) ==
  LET title == body.title
      content == body.content
      path == body.path
      plan(outcome, st, arg, file, html, warnings) ==
        [outcome |-> outcome, stage |-> st, arg |-> arg, diskFile |-> file,
         finalHtml |-> html, warnings |-> warnings]
  IN  IF body.json = "malformed"
      THEN plan("error", 0, "", Null, EmptyDoc, {})
      ELSE IF title.t # "string" \/ falsy(content) \/ content.t # "string"
      THEN plan("fields", 0, "", Null, EmptyDoc, {})
      ELSE IF Len(title.v) > max_title_length
      THEN plan("title", 0, "", Null, EmptyDoc, {})
      ELSE IF falsy(path) \/ path.t # "string"
      THEN plan("path", 0, "", Null, EmptyDoc, {})
      ELSE Only({
        IF stage # 0 THEN plan("unsafe", stage, "", Null, EmptyDoc, tested)
        ELSE Only({
          IF ~d.ok THEN plan("error", 0, "", Null, EmptyDoc, replaced)
          ELSE Only({
            IF diskFile = Null
            THEN plan("blocked", 0, d.val, Null, EmptyDoc, replaced)
            ELSE plan("write", 0, d.val, diskFile,
                      buildFinalHtml(title.v, sanitizeHtml(content.v, slow)),
                      replaced) :
              diskFile \in {getDiskCacheFilePath(d.val)}}) :
            d \in {decodeURI(path.v)},
            replaced \in {tested \cup (IF slow # {} THEN {"replace"}
                                       ELSE {})}}) :
          stage \in {rejectingStage(content.v, timedOut)},
          tested \in {IF testWarned(content.v, timedOut) THEN {"test"}
                      ELSE {}}})

\* fetch, DELETE: the checks after authentication
deletePlan(body) ==
  LET path == body.path
      plan(outcome, arg, file) ==
        [outcome |-> outcome, path |-> path.v, arg |-> arg, file |-> file]
  IN  IF body.json = "malformed" THEN plan("error", "", Null)
      ELSE IF falsy(path) \/ path.t # "string" THEN plan("path", "", Null)
      ELSE Only({
        IF ~d.ok THEN plan("uri", "", Null)
        ELSE Only({
          IF diskCacheFilePath = Null THEN plan("blocked", d.val, Null)
          ELSE plan("delete", d.val, diskCacheFilePath) :
            diskCacheFilePath \in {getDiskCacheFilePath(d.val)}}) :
          d \in {decodeURI(path.v)}})

\* String.prototype.trim on a document
trimDoc(d) ==
  Only({Only({IF keep = {} THEN EmptyDoc
              ELSE DocSub(x, First(keep), Last(keep)) :
                keep \in {{j \in 1..Len(cs) : cs[j] \notin Whitespace} :
                            cs \in {Chars(x.html)}}}) :
          x \in {d}})

\* one run of the intercept script: whether existsSync finds the script,
\* whether it lies inside the project directory, whether Bun.spawn starts
\* it, whether it is still running when the 5 s timer fires, its exit code
\* and what it prints
ScriptRun(found, inside, spawned, timedOut, exitCode, prints) ==
  [found |-> found, inside |-> inside, spawned |-> spawned,
   timedOut |-> timedOut, exitCode |-> exitCode, prints |-> prints]

\* what a script prints, given the html on its stdin (origin "i" for the
\* characters of the script's own)
scriptOutput(prints, html) ==
  CASE prints = "nothing" -> EmptyDoc
    [] prints = "blank" -> Doc(" \n", "i")
    [] prints = "marked" -> DocCat(html, Doc("<!--hook-->", "i"))
    [] prints = "line" -> DocCat(Doc("<i>ok</i>", "i"), Doc("\n", "i"))
    [] prints = "triple" -> DocCat(DocCat(html, html), html)
    [] prints = "tripleLine" ->
         DocCat(DocCat(DocCat(html, html), html), Doc("\n", "i"))
    [] OTHER -> DocCat(DocCat(DocCat(html, html), html), Doc("x", "i"))

\* a transform that is trusted with whatever it prints
trustScript(finalHtml, script, run) ==
  [html |-> scriptOutput(run.prints, finalHtml), outcome |-> "returned"]

\* executeInterceptScript (lines 772-854): the html is returned as it is
\* when no script is configured ("none"), when the script is missing or
\* outside the project, cannot be spawned, exits with a non-zero code, or
\* prints nothing or too much after trimming ("failed"), and when the race
\* against the 5 s timer is lost ("timeout": the catch returns the html,
\* nothing ends the subprocess); otherwise it is the trimmed output of the
\* script ("returned")
executeInterceptScript(finalHtml, script, run) ==
  LET keep(outcome) == [html |-> finalHtml, outcome |-> outcome]
  IN  IF script = "" THEN keep("none")
      ELSE IF ~run.found \/ ~run.inside \/ ~run.spawned THEN keep("failed")
      ELSE IF run.timedOut THEN keep("timeout")
      ELSE IF run.exitCode # 0 THEN keep("failed")
      ELSE Only({
        IF transformedHtml.html = "" THEN keep("failed")
        ELSE IF Len(transformedHtml.html) > Len(finalHtml.html) * 3
        THEN keep("failed")
        ELSE [html |-> transformedHtml, outcome |-> "returned"] :
          transformedHtml \in {trimDoc(scriptOutput(run.prints, finalHtml))}})

(***************************************************************************)
(* The pure parts, tabulated once over the requests of the model.          *)
(***************************************************************************)
\* a deployment with an intercept script and a JWT secret, and the GETs
\* studied under it: a page, and the file of its snapshot asked for as a
\* static asset
AdminProfile ==
  Config(<<"/*">>, <<"/admin/*">>, 2, "crawlers_only", "hook.ts", "the-secret")

SnapshotGets ==
  {Request("GET", t, ua, "", NoBody) :
     t \in {"/about", "/.sterad__cache/about.html"}, ua \in {Browser, Crawler}}

Routes ==
  [cfg \in Profiles \cup {AdminProfile} |->
     [r \in GetRequests \cup SnapshotGets |-> getRoute(r, cfg)]]

Captures ==
  [b \in PostBodies |->
     [timedOut \in TimedOutChoices |->
        [slow \in SlowChoices |-> capturePlan(b, timedOut, slow)]]]

Deletes == [b \in DeleteBodies |-> deletePlan(b)]

CaptureUrl == [r \in Requests |-> isCaptureUrl(r)]

(***************************************************************************)
(* State.                                                                  *)
(***************************************************************************)
VARIABLES
  config,       \* the configuration the server was started with
  memoryCache,  \* the Map of the memory cache, oldest entry first
  disk,         \* the files on disk: path -> document
  pending,      \* the handlers suspended at an await
  response,     \* the request handled by the last step and its response
  log,          \* what the last step wrote to the console
  touched,      \* the file operations of the last step
  resolved,     \* the path resolver calls of the last step
  captured,     \* url -> snapshot of the captures completed since the
                \* last DELETE request
  served,       \* number of requests received
  running,      \* number of intercept subprocesses that are still running
  recency,      \* the keys of an insertion sequence, in order (SpecLRU)
  input,        \* the argument of a function studied on its own
  output        \* its result

vars ==
  <<config, memoryCache, disk, pending, response, log, touched, resolved,
    captured, served, running, recency, input, output>>

\* no argument, no result
Nothing == [fn |-> "none"]

MaxRequests == 3
MaxPending == 2

Event(ev, arg) == [ev |-> ev, arg |-> arg]
Touch(op, file, root) == [op |-> op, file |-> file, root |-> root]
Resolve(fn, arg, out) == [fn |-> fn, arg |-> arg, out |-> out]

\* a handler suspended at an await
Cont(at, req, path, file, html, cap) ==
  [at |-> at, req |-> req, path |-> path, file |-> file, html |-> html,
   cap |-> cap]

\* cap: the url of the request had a completed capture when it arrived
Answer(req, res, cap) == [req |-> req, res |-> res, cap |-> cap]

NoRequest == Request("", "", "", "", NoBody)

\* the console line of addToMemoryCache: the key it evicts, if any
evicted(cache, path, limit) ==
  LET removed == IF cacheHas(cache, path) THEN cacheDelete(cache, path)
                 ELSE cache
      added == Append(removed, [key |-> path, file |-> ""])
  IN  IF Len(added) > limit THEN {Event("evicted", added[1].key)} ELSE {}

\* a fallback that never hands out the capture script
plainShellOnly(rt) == spaShellHtml

\* a fallback that hands out the capture script for every cacheable path
captureScriptWhenCacheable(rt) ==
  IF rt.isCacheableRoute THEN spaHtmlWithInjectScript ELSE spaShellHtml

\* the shell a GET falls back to (lines 1044-1061)
fallbackShell(rt) ==
  IF ~rt.isCacheableRoute THEN spaShellHtml
  ELSE IF rt.shouldServeCached THEN spaHtmlWithInjectScript
  ELSE spaShellHtml

\* the root a memory cache entry was resolved against
rootOf(path) ==
  IF isStaticAsset(path) THEN spaDistAbsolute ELSE cacheDirAbsolute

runtimeError(res) ==
  IF res = errorReply THEN {Event("runtime error", "")} ELSE {}

Init ==
  /\ config \in Profiles
  /\ memoryCache = <<>>
  /\ disk = InitialDisk
  /\ pending = {}
  /\ response = Answer(NoRequest, NoRes, FALSE)
  /\ log = {}
  /\ touched = {}
  /\ resolved = {}
  /\ captured = <<>>
  /\ served = 0
  /\ running = 0
  /\ recency = <<>>
  /\ input = Nothing
  /\ output = Nothing

Step(cache, files, pend, rsp, lg, tch, rsv, cap) ==
  /\ memoryCache' = cache
  /\ disk' = files
  /\ pending' = pend
  /\ response' = rsp
  /\ log' = lg
  /\ touched' = tch
  /\ resolved' = rsv
  /\ captured' = cap

\* a request arrives
Receive ==
  /\ served < MaxRequests
  /\ served' = served + 1
  /\ UNCHANGED <<config, running, recency, input, output>>

\* a suspended handler runs on
Resume(k) ==
  /\ k \in pending
  /\ UNCHANGED <<config, served, recency, input, output>>

(***************************************************************************)
(* fetch, GET (lines 974-1062), up to its first await.                     *)
(***************************************************************************)
Get(r) ==
  LET rt == Routes[config][r]
      path == rt.path
      cap == r.target \in DOMAIN captured
      suspend(at, file, fn) ==
        /\ Cardinality(pending) < MaxPending
        /\ Step(memoryCache, disk,
                pending \cup {Cont(at, r, path, file, EmptyDoc, cap)},
                Answer(r, NoRes, cap), {}, {}, {Resolve(fn, path, file)},
                captured)
      reply(res, lg, tch, rsv) ==
        Step(memoryCache, disk, pending, Answer(r, res, cap), lg, tch, rsv,
             captured)
  IN  /\ r.method = "GET"
      /\ Receive
      /\ IF ~rt.decoded
         \* decodeURI throws: the rejection goes to the error callback
         THEN reply(errorReply, runtimeError(errorReply), {}, {})
         ELSE IF rt.shouldServeCached /\ cacheHas(memoryCache, path)
         THEN \E res \in sendFile(cacheGet(memoryCache, path), disk) :
                reply(res, runtimeError(res),
                      {Touch("read", cacheGet(memoryCache, path),
                             rootOf(path))}, {})
         ELSE IF rt.static
         THEN IF rt.secureFilePath = Null
              THEN reply(notFoundReply, {Event("blocked static", path)}, {},
                         {Resolve("static", path, Null)})
              ELSE suspend("static", rt.secureFilePath, "static")
         ELSE IF rt.shouldServeCached /\ rt.isCacheableRoute
         THEN IF rt.diskCacheFilePath # Null
              THEN suspend("disk", rt.diskCacheFilePath, "disk")
              ELSE reply(htmlReply(fallbackShell(rt)), {}, {},
                         {Resolve("disk", path, Null)})
         ELSE reply(htmlReply(fallbackShell(rt)), {}, {}, {})

\* after await file.exists() (lines 1005-1010)
ResumeStatic(k) ==
  LET exists == k.file \in DOMAIN disk
      limit == config.memory_cache_limit
  IN  /\ Resume(k)
      /\ k.at = "static"
      /\ UNCHANGED running
      /\ \E res \in sendFile(k.file, disk) :
           Step(IF exists
                THEN addToMemoryCache(memoryCache, k.path, k.file, limit)
                ELSE memoryCache,
                disk, pending \ {k}, Answer(k.req, res, k.cap),
                (IF exists THEN evicted(memoryCache, k.path, limit) ELSE {})
                  \cup runtimeError(res),
                {Touch("stat", k.file, spaDistAbsolute),
                 Touch("read", k.file, spaDistAbsolute)},
                {}, captured)

\* after await diskFile.exists() (lines 1029-1061)
ResumeDisk(k) ==
  LET exists == k.file \in DOMAIN disk
      limit == config.memory_cache_limit
      rt == Routes[config][k.req]
  IN  /\ Resume(k)
      /\ k.at = "disk"
      /\ UNCHANGED running
      /\ IF exists
         THEN \E res \in sendFile(k.file, disk) :
                Step(addToMemoryCache(memoryCache, k.path, k.file, limit),
                     disk, pending \ {k}, Answer(k.req, res, k.cap),
                     evicted(memoryCache, k.path, limit),
                     {Touch("stat", k.file, cacheDirAbsolute),
                      Touch("read", k.file, cacheDirAbsolute)},
                     {}, captured)
         ELSE Step(memoryCache, disk, pending \ {k},
                   Answer(k.req, htmlReply(fallbackShell(rt)), k.cap), {},
                   {Touch("stat", k.file, cacheDirAbsolute)}, {}, captured)

(***************************************************************************)
(* fetch, POST /__sterad_capture (lines 1065-1187).                        *)
(***************************************************************************)
\* a write that appends to the file that is there
appendToFile(k, html, lg, rsv) ==
  Step(memoryCache,
       put(disk, k.file,
           IF k.file \in DOMAIN disk THEN DocCat(disk[k.file], html)
           ELSE html),
       pending \ {k}, Answer(k.req, capturedReply, k.cap), lg,
       {Touch("mkdir", dirname(k.file), cacheDirAbsolute),
        Touch("write", k.file, cacheDirAbsolute)},
       rsv, put(captured, k.path, html))

\* a write that also enters the file into the memory cache
writeThroughCache(k, html, lg, rsv) ==
  Step(addToMemoryCache(memoryCache, k.path, k.file,
                        config.memory_cache_limit),
       put(disk, k.file, html), pending \ {k},
       Answer(k.req, capturedReply, k.cap), lg,
       {Touch("mkdir", dirname(k.file), cacheDirAbsolute),
        Touch("write", k.file, cacheDirAbsolute)},
       rsv, put(captured, k.path, html))

\* lines 1164-1168 and 1176: the directory, the write, the reply
write(k, html, lg, rsv) ==
  Step(memoryCache, put(disk, k.file, html), pending \ {k},
       Answer(k.req, capturedReply, k.cap), lg,
       {Touch("mkdir", dirname(k.file), cacheDirAbsolute),
        Touch("write", k.file, cacheDirAbsolute)},
       rsv, put(captured, k.path, html))

Post(r) ==
  LET reply(res, lg, rsv) ==
        Step(memoryCache, disk, pending, Answer(r, res, FALSE), lg, {}, rsv,
             captured)
  IN  /\ r.method = "POST"
      /\ CaptureUrl[r]
      /\ Receive
      /\ \E timedOut \in TimedOutChoices, slow \in SlowChoices :
           LET plan == Captures[r.body][timedOut][slow]
               k == Cont("intercept", r, r.body.path.v, plan.diskFile,
                         plan.finalHtml, FALSE)
               \* the console lines of the guarded operations that ran
               \* over their budget
               warned == {Event("timeout", w) : w \in plan.warnings}
           IN  IF plan.outcome = "error"
               THEN reply(failedReply,
                          {Event("capture failed", "")} \cup warned, {})
               ELSE IF plan.outcome = "fields"
               THEN reply(fieldsReply, {Event("missing content", "")}, {})
               ELSE IF plan.outcome = "title"
               THEN reply(titleReply, {Event("title too long", "")}, {})
               ELSE IF plan.outcome = "path"
               THEN reply(pathReply, {Event("missing path", "")}, {})
               ELSE IF plan.outcome = "unsafe"
               THEN reply(unsafeReply,
                          {Event("rejected", ToString(plan.stage))}
                            \cup warned, {})
               ELSE IF plan.outcome = "blocked"
               THEN reply(capturedReply,
                          {Event("blocked write", plan.arg)} \cup warned,
                          {Resolve("disk", plan.arg, Null)})
               ELSE IF config.intercept_script = ""
               THEN write(k, plan.finalHtml, warned,
                          {Resolve("disk", plan.arg, plan.diskFile)})
               ELSE /\ Cardinality(pending) < MaxPending
                    /\ Step(memoryCache, disk, pending \cup {k},
                            Answer(r, NoRes, FALSE),
                            {Event("intercept", config.intercept_script)}
                              \cup warned,
                            {}, {Resolve("disk", plan.arg, plan.diskFile)},
                            captured)

\* the runs of the configured script: a script that fails, one that hangs
\* and one that returns its input with a marker; the one script under study
\* when a single script is studied
ScriptRuns ==
  IF input.fn = "hook" THEN {input.run}
  ELSE {ScriptRun(TRUE, TRUE, TRUE, FALSE, 1, "nothing"),
        ScriptRun(TRUE, TRUE, TRUE, TRUE, 0, "nothing"),
        ScriptRun(TRUE, TRUE, TRUE, FALSE, 0, "marked")}

\* after await executeInterceptScript(...) (lines 1159-1178)
ResumeIntercept(k) ==
  /\ Resume(k)
  /\ k.at = "intercept"
  /\ \E script \in ScriptRuns :
       \E run \in {executeInterceptScript(k.html, config.intercept_script,
                                          script)} :
         /\ write(k, run.html, {Event("intercept " \o run.outcome, "")}, {})
         /\ running' = IF run.outcome = "timeout" THEN running + 1
                       ELSE running

(***************************************************************************)
(* fetch, DELETE /__sterad_capture (lines 1189-1236).                      *)
(***************************************************************************)
Delete(r) ==
  LET isAuthenticated == validateBearerToken(r.auth, config.jwtConfig)
      plan == Deletes[r.body]
      reply(cache, res, lg, rsv) ==
        Step(cache, disk, pending, Answer(r, res, FALSE), lg, {}, rsv, <<>>)
      removed == cacheDelete(memoryCache, plan.path)
  IN  /\ r.method = "DELETE"
      /\ CaptureUrl[r]
      /\ Receive
      /\ IF ~isAuthenticated
         THEN reply(memoryCache, unauthorizedReply,
                    {Event("unauthorized", "")}, {})
         ELSE IF plan.outcome \in {"error", "path"}
         THEN reply(memoryCache, deletedReply, {}, {})
         ELSE IF plan.outcome = "uri"
         THEN reply(removed, deletedReply, {}, {})
         ELSE IF plan.outcome = "blocked"
         THEN reply(removed, deletedReply, {Event("blocked delete", plan.path)},
                    {Resolve("disk", plan.arg, Null)})
         ELSE /\ Cardinality(pending) < MaxPending
              /\ Step(removed, disk,
                      pending \cup {Cont("delete", r, plan.path, plan.file,
                                         EmptyDoc, FALSE)},
                      Answer(r, NoRes, FALSE), {}, {},
                      {Resolve("disk", plan.arg, plan.file)}, <<>>)

\* after await diskFile.exists() (lines 1220-1230)
ResumeDelete(k) ==
  LET exists == k.file \in DOMAIN disk
  IN  /\ Resume(k)
      /\ k.at = "delete"
      /\ UNCHANGED running
      /\ Step(memoryCache, IF exists THEN drop(disk, k.file) ELSE disk,
              pending \ {k}, Answer(k.req, deletedReply, FALSE), {},
              {Touch("stat", k.file, cacheDirAbsolute)}
                \cup (IF exists
                      THEN {Touch("delete", k.file, cacheDirAbsolute)}
                      ELSE {}),
              {}, <<>>)

\* any other request (lines 1237-1239)
Fallback(r) ==
  /\ r.method # "GET"
  /\ ~(r.method \in {"POST", "DELETE"} /\ CaptureUrl[r])
  /\ Receive
  /\ Step(memoryCache, disk, pending, Answer(r, fallbackReply, FALSE), {},
          {}, {}, captured)

Next ==
  \/ \E r \in Requests : Get(r)
  \/ \E r \in Requests : Post(r)
  \/ \E r \in Requests : Delete(r)
  \/ \E r \in Requests : Fallback(r)
  \/ \E k \in pending : ResumeStatic(k)
  \/ \E k \in pending : ResumeDisk(k)
  \/ \E k \in pending : ResumeIntercept(k)
  \/ \E k \in pending : ResumeDelete(k)

Spec == Init /\ [][Next]_vars


(***************************************************************************)
(* The memory cache on its own: addToMemoryCache called with one key after *)
(* the other on an empty Map, for every capacity up to MaxCapacity.        *)
(***************************************************************************)
MaxCapacity == 3
MaxKeys == 4
MaxInsertions == 6

LruKeys == {"/k" \o ToString(i) : i \in 1..MaxKeys}

InitLRU ==
  /\ config \in {Config(<<"/*">>, <<>>, n, "all_clients", "", "") :
                   n \in 1..MaxCapacity}
  /\ memoryCache = <<>>
  /\ disk = InitialDisk
  /\ pending = {}
  /\ response = Answer(NoRequest, NoRes, FALSE)
  /\ log = {}
  /\ touched = {}
  /\ resolved = {}
  /\ captured = <<>>
  /\ served = 0
  /\ running = 0
  /\ recency = <<>>
  /\ input = Nothing
  /\ output = Nothing

\* addToMemoryCache(key, file)
Insert(key) ==
  /\ Len(recency) < MaxInsertions
  /\ memoryCache' = addToMemoryCache(memoryCache, key, key \o ".html",
                                     config.memory_cache_limit)
  /\ log' = evicted(memoryCache, key, config.memory_cache_limit)
  /\ recency' = Append(recency, key)
  /\ UNCHANGED <<config, disk, pending, response, touched, resolved,
                 captured, served, running, input, output>>

NextLRU == \E key \in LruKeys : Insert(key)

SpecLRU == InitLRU /\ [][NextLRU]_vars

(***************************************************************************)
(* Properties.                                                             *)
(***************************************************************************)

\* C1: in every reachable state, whatever the interleaving of the handlers,
\* the memory cache holds at most memory_cache_limit entries.
C1_CacheWithinLimit == Len(memoryCache) <= config.memory_cache_limit

\* an eviction has just happened and the cache is full
C1_Witness ==
  /\ \E e \in log : e.ev = "evicted"
  /\ Len(memoryCache) = config.memory_cache_limit

\* index of the last touch of a key in a sequence of touches
lastTouch(key, seq) == Last({i \in 1..Len(seq) : seq[i] = key})

\* C2: for every capacity N, inserting a key that is not in the cache into
\* a full cache leaves exactly N keys, evicts exactly one key, and the
\* evicted key is the least recently touched one; below capacity nothing
\* is evicted.
C2_LruEviction ==
  [][recency' # recency =>
       LET N == config.memory_cache_limit
           key == recency'[Len(recency')]
           before == cacheKeys(memoryCache)
           after == cacheKeys(memoryCache')
           gone == (before \cup {key}) \ after
       IN  key \notin before =>
             IF Cardinality(before) = N
             THEN /\ Cardinality(after) = N
                  /\ Len(memoryCache') = N
                  /\ after \subseteq before \cup {key}
                  /\ Cardinality(gone) = 1
                  /\ \A g \in gone : \A o \in after :
                       lastTouch(g, recency') < lastTouch(o, recency')
             ELSE after = before \cup {key}]_vars

\* more distinct keys were inserted than the cache holds: a key is gone and
\* the cache is full
C2_Witness ==
  /\ Len(memoryCache) = config.memory_cache_limit
  /\ \E i \in 1..Len(recency) : ~cacheHas(memoryCache, recency[i])
  /\ \E e \in log : e.ev = "evicted"

\* one round of percent-decoding that leaves a malformed escape as it is
lenientDecode(s) ==
  Only({LET go[i \in 1..(Len(cs) + 1)] ==
              IF i > Len(cs) THEN ""
              ELSE IF cs[i] = "%" /\ i + 2 <= Len(cs)
                      /\ toLowerChar(cs[i + 1]) \o toLowerChar(cs[i + 2])
                           \in DOMAIN EscapeTable
              THEN EscapeTable[toLowerChar(cs[i + 1])
                                 \o toLowerChar(cs[i + 2])] \o go[i + 3]
              ELSE cs[i] \o go[i + 1]
        IN  go[1] : cs \in {Chars(s)}})

\* the path has a ".." segment: as it is, decoded once or decoded twice
HasDotDot(p) ==
  \E q \in {p, lenientDecode(p), lenientDecode(lenientDecode(p))} :
    \E segs \in {split(replaceClass(q, {"\\"}, "/"), "/")} :
      \E i \in 1..Len(segs) : segs[i] = ".."

\* some round of decoding the path fails on a malformed escape
RECURSIVE Undecodable(_, _, _)
Undecodable(cleanPath, previousPath, iterations) ==
  IF cleanPath = previousPath \/ iterations >= maxIterations THEN FALSE
  ELSE \E d \in {decodeURIComponent(cleanPath)} :
         IF ~d.ok THEN TRUE
         ELSE Undecodable(d.val, cleanPath, iterations + 1)

Inside(file, root) == file = root \/ startsWith(file, root \o "/")

\* every file operation of the last step stays inside its root
FilesInsideRoot == \A t \in touched : Inside(t.file, t.root)

\* C3 (as stated): every path with a ".." segment, raw or percent-encoded
\* once or twice, is refused by the path resolver, and no request touches a
\* file outside the cache root (the distribution root for static assets).
C3_DotDotRefused ==
  /\ \A c \in resolved : HasDotDot(c.arg) => c.out = Null
  /\ FilesInsideRoot

\* C3 (amended): every path with a ".." segment, raw or percent-encoded
\* once or twice, whose percent-escapes all decode, is refused by the path
\* resolver, and no request touches a file outside the cache root (the
\* distribution root for static assets).
C3_DecodableDotDotRefused ==
  /\ \A c \in resolved :
       (HasDotDot(c.arg) /\ ~Undecodable(c.arg, "", 0)) => c.out = Null
  /\ FilesInsideRoot

\* the resolver refused a ".." that reached it percent-encoded twice
C3_Witness ==
  \E c \in resolved : c.arg = "/%252e%252e/x" /\ c.out = Null

\* the GET of the last step is answered, under the routes ["/*"] with the
\* exclusion ["/admin/*"], and its path lies under /admin/
AdminGet ==
  /\ response.req.method = "GET"
  /\ response.res # NoRes
  /\ config.cache_routes = <<"/*">>
  /\ config.not_cache_routes = <<"/admin/*">>
  /\ Routes[config][response.req].decoded
  /\ startsWith(Routes[config][response.req].path, "/admin/")

ScriptCapture ==
  /\ response.req.method = "POST"
  /\ CaptureUrl[response.req]
  /\ response.req.body.title.t = "string"
  /\ response.req.body.path.t = "string"
  /\ response.req.body.content = JStr(scriptContent)

\* no file was touched and no handler is left to write one for the request
NothingWritten ==
  /\ touched = {}
  /\ \A k \in pending : k.req # response.req

\* the content was rejected, by that stage and by no other
RejectedAt(stage) ==
  /\ Event("rejected", stage) \in log
  /\ \A e \in log : e.ev = "rejected" => e.arg = stage

\* C5 (as stated): a capture whose content is
\* <script>alert(1)</script><p>hi</p> is rejected by the fourth validation
\* stage (the dangerous patterns) and by none before it, and no cache file
\* is written.
C5_RejectedAtPatternStage ==
  ScriptCapture => (RejectedAt("4") /\ NothingWritten)

\* C5 (amended): a capture whose content is
\* <script>alert(1)</script><p>hi</p> is rejected by the second validation
\* stage (the HTML structure) and by none before it, and no cache file is
\* written.
C5_RejectedAtStructureStage ==
  ScriptCapture => (RejectedAt("2") /\ NothingWritten)

\* the script capture was rejected
C5_Witness ==
  /\ ScriptCapture
  /\ \E e \in log : e.ev = "rejected"

\* no character that came from a title is "<" or ">"
NoTitleMarkup(d) ==
  \A i \in 1..Len(d.html) :
    d.taint[i] = "t" => SubSeq(d.html, i, i) \notin {"<", ">"}

\* C6: in every file on disk, no "<" and no ">" comes from the title of a
\* capture: the title is written entity-escaped.
C6_TitleEscaped == \A f \in DOMAIN disk : NoTitleMarkup(disk[f])

\* a capture with markup in its title was written, escaped
C6_Witness ==
  \E f \in DOMAIN disk :
    includes(disk[f].html, "&lt;/title&gt;&lt;script&gt;")

\* the Authorization headers of the model whose credential fails
FailingCredentials ==
  {"Basic good", "Bearer forged", "Bearer expired", "Bearer foreign"}

\* C7: a DELETE capture request without an Authorization header, with a
\* credential that fails validation, or while no secret is configured, is
\* answered 401 with WWW-Authenticate: Bearer, and leaves the memory cache
\* and the files on disk as they were.
C7_UnauthorizedDeleteChangesNothing ==
  [][(/\ served' = served + 1
      /\ response'.req.method = "DELETE"
      /\ CaptureUrl[response'.req]
      /\ \/ response'.req.auth = ""
         \/ response'.req.auth \in FailingCredentials
         \/ ~config.jwtConfig.present)
       => /\ response'.res.status = 401
          /\ <<"WWW-Authenticate", "Bearer">> \in response'.res.headers
          /\ memoryCache' = memoryCache
          /\ disk' = disk
          /\ pending' = pending]_vars

\* a forged credential was turned away while the memory cache had an entry
\* and a capture was on disk
C7_Witness ==
  /\ response.req.method = "DELETE"
  /\ response.req.auth = "Bearer forged"
  /\ response.res.status = 401
  /\ memoryCache # <<>>
  /\ \E f \in DOMAIN disk : Inside(f, cacheDirAbsolute)

\* C8 (as stated): a GET of a static asset whose resolved file does not
\* exist is answered 404 and adds no entry to the memory cache.
C8_MissingAssetIs404 ==
  (/\ response.req.method = "GET"
   /\ response.res # NoRes
   /\ Routes[config][response.req].static
   /\ Routes[config][response.req].secureFilePath # Null
   /\ Routes[config][response.req].secureFilePath \notin DOMAIN disk)
    => /\ response.res.status = 404
       /\ ~cacheHas(memoryCache, Routes[config][response.req].path)

\* C9: every answer to a POST capture request is the same response: 200,
\* the fixed confirmation body and the security headers, whatever the
\* outcome of the capture.
C9_CaptureReplyIsConstant ==
  (/\ response.req.method = "POST"
   /\ CaptureUrl[response.req]
   /\ response.res # NoRes)
    => response.res = Response(200, confirmation, securityHeaders)

\* a rejected capture was answered with the confirmation
C9_Witness ==
  /\ response.req.method = "POST"
  /\ \E e \in log : e.ev = "rejected"
  /\ response.res = Response(200, confirmation, securityHeaders)

\* C10 (as stated): for every cacheable URL that is not a static asset,
\* after a completed capture POST whose path is the URL's pathname and
\* query, and no DELETE since, a GET of the URL by a client that is served
\* cached content is answered with the captured snapshot.
C10_CapturedUrlServesSnapshot ==
  (/\ response.req.method = "GET"
   /\ response.res # NoRes
   /\ response.cap
   /\ response.req.target \in DOMAIN captured
   /\ Routes[config][response.req].shouldServeCached
   /\ Routes[config][response.req].isCacheableRoute
   /\ ~Routes[config][response.req].static)
    => response.res.body = captured[response.req.target]

\* the same, for the URLs without a query
PathOnlyUrlServesSnapshot ==
  queryAt(response.req.target) = 0 => C10_CapturedUrlServesSnapshot

\* a GET of a captured URL without a query was answered
PathOnlyWitness ==
  /\ response.req.method = "GET"
  /\ response.res # NoRes
  /\ response.cap
  /\ response.req.target = "/about"
  /\ "/about" \in DOMAIN captured
  /\ response.res.body = captured["/about"]

(***************************************************************************)
(* Functions on their own: the validator and the sanitizer in sequence,    *)
(* one guarded call of the safe pattern matcher, and the route classifier  *)
(* under cache_routes = ["/*"] without exclusions.                         *)
(***************************************************************************)
MaxFragments == 4
MaxCost == 120

Fragments ==
  <<"<a xhref=\"javascript:>y</a>\"", "<p>", "</p>", "plain text here",
    "<p onclick=\"x\">">>

\* the concatenations of at most n fragments
RECURSIVE Concats(_)
Concats(n) ==
  IF n = 0 THEN {""}
  ELSE Only({S \cup {s \o Fragments[i] : s \in S, i \in 1..Len(Fragments)} :
               S \in {Concats(n - 1)}})

Contents == Concats(MaxFragments)

PurePaths ==
  {"/", "/about", "/a/b", "/admin/x", "/A", "/x.js", "/p?q=1", "/a b"}

GuardedOps == {"test", "exec", "replace"}

\* the concatenations of at most n strings of the sequence f
RECURSIVE Chains(_, _)
Chains(f, n) ==
  IF n = 0 THEN {""}
  ELSE Only({S \cup {s \o f[i] : s \in S, i \in 1..Len(f)} :
               S \in {Chains(f, n - 1)}})

\* contents for the structure check: paired, crossed, void, self-closed
\* and disallowed tags
StructureContents ==
  Chains(<<"<p>", "</p>", "<b>", "</b>", "<br>", "<i/>", "<x>", "t">>,
         MaxFragments)

\* contents for the density check: 7 tag characters against 2 or 3 text
\* characters, and white space around them
DensityContents ==
  Chains(<<"<b>", "</b>", "abc", "ab", " ", "      ">>, MaxFragments)

\* route lists and paths for the route classifier
RouteLists ==
  {<<>>, <<"/">>, <<"/*">>, <<"/a?c">>, <<"/docs/*", "/">>, <<"/About">>,
   <<"/a.b">>}

RoutePaths ==
  {"/", "/about", "/ABOUT", "/abc", "/a/c", "/a\nb", "/docs/x", "/docs/",
   "/axb", "/a.b", "/docs"}

\* paths for the static-asset test
AssetPaths ==
  {"/app.js", "/font.woff2", "/a.b.js", "/x.c", "/x.", "/x", "/a.b/c",
   "/app.js?v=1", "/img/file.jpeg", "/file.woff22", "/.env", "/",
   "/v1.2/users", "/a.", "/README.markdown"}

\* paths for the path resolver: every character the file name replaces,
\* nested, encoded and refused paths
CachePaths ==
  {"/", "", "/about", "/a/b", "/a_b", "/a:b", "/a*b", "/a?b", "/a\"b",
   "/a<b>", "/a|b", "/a\\b", "/a//b/", "/a%2Fb", "/a%20b", "/a b", "/A/b",
   "/.", "/../x", "/%2e%2e/x", "/a/b/c", "/index"}

Argument(fn, text, cost, timedOut, slow) ==
  [fn |-> fn, text |-> text, cost |-> cost, timedOut |-> timedOut,
   slow |-> slow]

PureInputs ==
  {Argument("sanitizeHtml", c, 0, t, s) :
     c \in Contents, t \in TimedOutChoices, s \in SlowChoices}
    \cup {[fn |-> op, cost |-> n, throws |-> th] :
            op \in GuardedOps, n \in 0..MaxCost, th \in BOOLEAN}
    \cup {Argument("shouldCachePath", p, 0, {}, {}) : p \in PurePaths}
    \cup {Argument("isSafeMainContent", c, 0, t, {}) :
            c \in Contents, t \in TimedOutChoices}
    \cup {Argument("validateHtmlStructure", c, 0, {}, {}) :
            c \in StructureContents}
    \cup {Argument("validateTagRatio", c, 0, {}, {}) :
            c \in DensityContents}
    \cup {[fn |-> "shouldCache", text |-> p, routes |-> inc,
            notRoutes |-> exc] :
            p \in RoutePaths, inc \in RouteLists, exc \in RouteLists}
    \cup {Argument("isStaticAsset", p, 0, {}, {}) : p \in AssetPaths}
    \cup {[fn |-> "getDiskCacheFilePath", text |-> p, other |-> q] :
            p \in CachePaths, q \in CachePaths}

InitPure ==
  /\ config \in {Config(<<"/*">>, <<>>, 1, "all_clients", "", "")}
  /\ memoryCache = <<>>
  /\ disk = InitialDisk
  /\ pending = {}
  /\ response = Answer(NoRequest, NoRes, FALSE)
  /\ log = {}
  /\ touched = {}
  /\ resolved = {}
  /\ captured = <<>>
  /\ served = 0
  /\ running = 0
  /\ recency = <<>>
  /\ input \in PureInputs
  /\ output = Nothing

Apply(result) ==
  /\ output.fn = "none"
  /\ output' = result
  /\ UNCHANGED <<config, memoryCache, disk, pending, response, log, touched,
                 resolved, captured, served, running, recency, input>>

\* isSafeMainContent(content), sanitizeHtml(content), and the validator
\* again on the result (fetch, POST: lines 1106-1116)
Roundtrip ==
  /\ input.fn = "sanitizeHtml"
  /\ \E again \in TimedOutChoices :
       Apply(Only({
         IF stage # 0
         THEN [fn |-> "sanitizeHtml", passed |-> FALSE, text |-> "",
               again |-> 0, timers |-> {}]
         ELSE Only({[fn |-> "sanitizeHtml", passed |-> TRUE, text |-> clean,
                     again |-> rejectingStage(clean, again),
                     timers |-> input.timedOut \cup input.slow \cup again] :
                      clean \in {sanitizeHtml(input.text, input.slow)}}) :
           stage \in {rejectingStage(input.text, input.timedOut)}}))

\* regex.test, regex.exec of createSafeRegex and safeReplace, for an
\* operation that takes input.cost milliseconds
Guarded ==
  /\ input.fn \in GuardedOps
  /\ Apply(Only({[fn |-> input.fn, value |-> g.value, elapsed |-> g.elapsed,
                   warned |-> g.warned, propagated |-> g.propagated] :
                   g \in {guardedCall(input.cost, input.throws, "result",
                                      CASE input.fn = "test" -> "false"
                                        [] input.fn = "exec" -> "null"
                                        [] OTHER -> "str")}}))

\* shouldCachePath(path) with cache_routes = ["/*"], not_cache_routes = []
Classify ==
  /\ input.fn = "shouldCachePath"
  /\ Apply([fn |-> "shouldCachePath",
            value |-> shouldCachePath(input.text, config.cache_routes,
                                      config.not_cache_routes)])

\* isSafeMainContent(content): the array of the four validations is built
\* first, every validation being called, then the first invalid one is
\* reported; warned: a test of the fourth validation logged its overrun
Validate ==
  /\ input.fn = "isSafeMainContent"
  /\ Apply(Only({[fn |-> "isSafeMainContent",
                  stage |-> First({n \in DOMAIN v : ~v[n].isValid}),
                  ran |-> DOMAIN v,
                  warned |-> testWarned(input.text, input.timedOut)] :
                   v \in {validations(input.text, input.timedOut)}}))

\* validateHtmlStructure(content)
Structure ==
  /\ input.fn = "validateHtmlStructure"
  /\ Apply([fn |-> "validateHtmlStructure",
            value |-> validateHtmlStructure(input.text).isValid])

\* validateTagRatio(content)
Density ==
  /\ input.fn = "validateTagRatio"
  /\ Apply([fn |-> "validateTagRatio",
            value |-> validateTagRatio(input.text).isValid])

\* shouldCachePath(path) under the route lists of the input
ClassifyUnder ==
  /\ input.fn = "shouldCache"
  /\ Apply([fn |-> "shouldCache",
            value |-> shouldCachePath(input.text, input.routes,
                                      input.notRoutes)])

\* isStaticAsset(path)
Static ==
  /\ input.fn = "isStaticAsset"
  /\ Apply([fn |-> "isStaticAsset", value |-> isStaticAsset(input.text)])

\* getDiskCacheFilePath(urlPath) for two paths, with the normalized form of
\* each (sanitizePath)
CacheFile ==
  /\ input.fn = "getDiskCacheFilePath"
  /\ Apply([fn |-> "getDiskCacheFilePath",
            clean |-> sanitizePath(input.text),
            value |-> getDiskCacheFilePath(input.text),
            otherClean |-> sanitizePath(input.other),
            otherValue |-> getDiskCacheFilePath(input.other)])

NextPure ==
  \/ Roundtrip
  \/ Guarded
  \/ Classify
  \/ Validate
  \/ Structure
  \/ Density
  \/ ClassifyUnder
  \/ Static
  \/ CacheFile

SpecPure == InitPure /\ [][NextPure]_vars

(***************************************************************************)
(* One capture POST issued again and again, without an intercept script.   *)
(***************************************************************************)
InitTwice ==
  /\ config \in {c \in Profiles : c.intercept_script = ""}
  /\ memoryCache = <<>>
  /\ disk = InitialDisk
  /\ pending = {}
  /\ response = Answer(NoRequest, NoRes, FALSE)
  /\ log = {}
  /\ touched = {}
  /\ resolved = {}
  /\ captured = <<>>
  /\ served = 0
  /\ running = 0
  /\ recency = <<>>
  /\ input \in {[fn |-> "capture", req |-> r] : r \in PostRequests}
  /\ output = Nothing

NextTwice == Post(input.req)

SpecTwice == InitTwice /\ [][NextTwice]_vars

(***************************************************************************)
(* Properties, continued.                                                  *)
(***************************************************************************)

\* the GET of the last step is answered and its path decodes
AnsweredGet ==
  /\ response.req.method = "GET"
  /\ response.res # NoRes
  /\ Routes[config][response.req].decoded

\* C11 (as stated): once an authenticated DELETE with the path the
\* hard-reload script reports (pathname and query, percent-encoded) has
\* completed, the memory cache has no entry for that URL and the cache file
\* of the URL is absent.
C11_DeleteInvalidates ==
  (/\ response.req.method = "DELETE"
   /\ response.res = deletedReply
   /\ \E t \in touched : t.op = "stat")
    => \E key \in {decodeURI(urlPathname(response.req.body.path.v))} :
         key.ok => /\ ~cacheHas(memoryCache, key.val)
                   /\ getDiskCacheFilePath(key.val) \notin DOMAIN disk

C13_SanitizedStillPasses ==
  (output.fn = "sanitizeHtml" /\ output.passed) => output.again = 0

\* the same, when no guarded operation runs over its budget
C13_SanitizedStillPassesInTime ==
  (output.fn = "sanitizeHtml" /\ output.passed /\ output.timers = {})
    => output.again = 0

\* no console line of a guarded operation that ran over its budget
InTime(lg) == \A e \in lg : e.ev # "timeout"

Authenticated(r) == config.jwtConfig.present /\ r.auth = "Bearer good"

\* C15: every response has status 200, 404 or 401; 404 only answers a GET
\* of a static-asset path, 401 only an unauthenticated DELETE of
\* /__sterad_capture; every POST and every other request gets 200.
C15_StatusCodes ==
  response.res # NoRes =>
    /\ response.res.status \in {200, 404, 401}
    /\ response.res.status = 404
         => /\ response.req.method = "GET"
            /\ Routes[config][response.req].static
    /\ response.res.status = 401
         => /\ response.req.method = "DELETE"
            /\ CaptureUrl[response.req]
            /\ ~Authenticated(response.req)
    /\ response.req.method \notin {"GET", "DELETE"}
         => response.res.status = 200

\* a static-asset path that leaves the distribution root was answered 404
C15_Witness ==
  /\ response.req.method = "GET"
  /\ response.res.status = 404
  /\ Routes[config][response.req].static

\* C16: every response carries the fixed security headers.
C16_SecurityHeaders ==
  response.res # NoRes => securityHeaders \subseteq response.res.headers

\* the error callback answered, with the security headers
C16_Witness ==
  /\ \E e \in log : e.ev = "runtime error"
  /\ response.res # NoRes
  /\ securityHeaders \subseteq response.res.headers

\* what a guarded call may take on top of its budget, in milliseconds
Overhead == 5

\* C17 (as stated): test, exec and the guarded replace return within the
\* time budget plus a small fixed overhead, whatever the pattern and input.
C17_GuardedCallInBudget ==
  output.fn \in GuardedOps => output.elapsed <= timeoutMs + Overhead

\* C18 (as stated): with cache_routes = ["/*"] and no exclusions,
\* shouldCachePath is true for every path, the root path "/" included.
C18_AllRoutesCached ==
  output.fn = "shouldCachePath" => output.value = TRUE

\* the same for every path but the root
C18_AllButRootCached ==
  (output.fn = "shouldCachePath" /\ input.text # "/") => output.value = TRUE

\* the GET of the last step found no cache entry: its path is cacheable and
\* not static, and neither the memory cache nor the disk holds a snapshot
Uncached ==
  /\ AnsweredGet
  /\ Routes[config][response.req].isCacheableRoute
  /\ ~Routes[config][response.req].static
  /\ ~cacheHas(memoryCache, Routes[config][response.req].path)
  /\ Routes[config][response.req].diskCacheFilePath \notin DOMAIN disk

C20_TimedOutScriptIsKilled ==
  [][Event("intercept timeout", "") \in log'
       => /\ running' = running
          /\ \E k \in pending \ pending' :
               /\ k.at = "intercept"
               /\ disk'[k.file] = k.html
               /\ log' = {Event("intercept timeout", "")}]_vars

\* the same without the fate of the subprocess
C20_TimedOutScriptKeepsHtml ==
  [][Event("intercept timeout", "") \in log'
       => \E k \in pending \ pending' :
            /\ k.at = "intercept"
            /\ disk'[k.file] = k.html
            /\ log' = {Event("intercept timeout", "")}]_vars


(***************************************************************************)
(* One capture POST under one intercept script: the script's behaviour is  *)
(* fixed for the run, the capture is issued up to MaxRequests times.       *)
(***************************************************************************)
HookRuns ==
  {ScriptRun(TRUE, TRUE, TRUE, FALSE, 0, prints) :
     prints \in {"nothing", "blank", "marked", "line", "triple",
                 "tripleLine", "tripleMore"}}
    \cup {ScriptRun(FALSE, TRUE, TRUE, FALSE, 0, "marked"),
          ScriptRun(TRUE, FALSE, TRUE, FALSE, 0, "marked"),
          ScriptRun(TRUE, TRUE, FALSE, FALSE, 0, "marked"),
          ScriptRun(TRUE, TRUE, TRUE, TRUE, 0, "marked"),
          ScriptRun(TRUE, TRUE, TRUE, FALSE, 1, "marked")}

InitHook ==
  /\ config \in Profiles
  /\ memoryCache = <<>>
  /\ disk = InitialDisk
  /\ pending = {}
  /\ response = Answer(NoRequest, NoRes, FALSE)
  /\ log = {}
  /\ touched = {}
  /\ resolved = {}
  /\ captured = <<>>
  /\ served = 0
  /\ running = 0
  /\ recency = <<>>
  /\ input \in {[fn |-> "hook", req |-> r, run |-> run] :
                  r \in PostRequests, run \in HookRuns}
  /\ output = Nothing

NextHook ==
  \/ Post(input.req)
  \/ \E k \in pending : ResumeIntercept(k)

SpecHook == InitHook /\ [][NextHook]_vars

\* the script ran to its end and exited with status 0
ExitedZero(run) ==
  /\ run.found
  /\ run.inside
  /\ run.spawned
  /\ ~run.timedOut
  /\ run.exitCode = 0

\* the file a capture must leave, given the html before the transform and
\* the output that counts as the transform's
Chosen(html, out) ==
  IF /\ config.intercept_script # ""
     /\ ExitedZero(input.run)
     /\ out.html # ""
     /\ Len(out.html) <= 3 * Len(html.html)
  THEN out
  ELSE html

\* the step wrote the file of a capture whose html before the transform is
\* html, and left it with the content the function want gives for it
Wrote(want(_)) ==
  /\ \A k \in pending \ pending' :
       k.at = "intercept" => disk'[k.file] = want(k.html)
  /\ (config.intercept_script = "" /\ \E t \in touched' : t.op = "write")
       => \E timedOut \in TimedOutChoices, slow \in SlowChoices :
            \E plan \in {Captures[input.req.body][timedOut][slow]} :
              /\ plan.outcome = "write"
              /\ disk'[plan.diskFile] = want(plan.finalHtml)

rawOutput(html) == Chosen(html, scriptOutput(input.run.prints, html))

trimmedOutput(html) ==
  Chosen(html, trimDoc(scriptOutput(input.run.prints, html)))

\* C21 (as stated): the file written for a capture is the output of the
\* transform if and only if the transform is configured, exits with status
\* 0, prints a non-empty output and the output is at most 3 times as long
\* as the html before the transform; otherwise it is the html before the
\* transform.
C21_TransformOrOriginal ==
  [][Wrote(rawOutput)]_vars

\* C21 (amended): the file written for a capture is the output of the
\* transform with leading and trailing whitespace trimmed if and only if
\* the transform is configured, exits with status 0, and its trimmed output
\* is non-empty and at most 3 times as long as the html before the
\* transform; otherwise it is the html before the transform.
C21_TrimmedTransformOrOriginal ==
  [][Wrote(trimmedOutput)]_vars

\* a script that prints three copies of its input and a line break had its
\* trimmed output written
C21_Witness ==
  /\ input.fn = "hook"
  /\ input.run.prints = "tripleLine"
  /\ Event("intercept returned", "") \in log
  /\ \E t \in touched :
       /\ t.op = "write"
       /\ \E n \in {Len(disk[t.file].html)} : n > 0 /\ n % 3 = 0

\* the capture whose file the last step wrote was for a cacheable path
WrittenForCacheablePath ==
  \E d \in {decodeURI(response.req.body.path.v)} :
    d.ok /\ shouldCachePath(d.val, config.cache_routes,
                            config.not_cache_routes)

\* C22 (as stated): every disk cache file is written for a path for which
\* shouldCachePath is true; a capture POST for a path that is not
\* cacheable creates no file.
C22_OnlyCacheablePathsWritten ==
  (\E t \in touched : t.op = "write") => WrittenForCacheablePath

(***************************************************************************)
(* Captures in flight together.  Bun.write is awaited and nothing in the   *)
(* handler keeps two writes of one file apart, so the write is taken in    *)
(* the two steps the operating system sees: the file is opened and         *)
(* truncated, and later the bytes are written from offset 0 through the    *)
(* writer's own descriptor.  (write above is the two steps in one.)        *)
(***************************************************************************)
\* the bytes of a file after html was written over it from offset 0
writtenOver(old, html) ==
  IF Len(old.html) > Len(html.html)
  THEN DocCat(html, DocSub(old, Len(html.html) + 1, Len(old.html)))
  ELSE html

\* after await executeInterceptScript(...): the directory, and the start of
\* Bun.write (lines 1159-1168)
BeginWrite(k) ==
  /\ Resume(k)
  /\ k.at = "intercept"
  /\ \E script \in ScriptRuns :
       \E run \in {executeInterceptScript(k.html, config.intercept_script,
                                          script)} :
         /\ Step(memoryCache, put(disk, k.file, EmptyDoc),
                 (pending \ {k})
                   \cup {Cont("write", k.req, k.path, k.file, run.html,
                              k.cap)},
                 Answer(k.req, NoRes, k.cap),
                 {Event("intercept " \o run.outcome, "")},
                 {Touch("mkdir", dirname(k.file), cacheDirAbsolute),
                  Touch("open", k.file, cacheDirAbsolute)},
                 {}, captured)
         /\ running' = IF run.outcome = "timeout" THEN running + 1
                       ELSE running

\* the end of Bun.write, and the reply (lines 1168-1178)
EndWrite(k) ==
  /\ Resume(k)
  /\ k.at = "write"
  /\ UNCHANGED running
  /\ Step(memoryCache,
          put(disk, k.file,
              writtenOver(IF k.file \in DOMAIN disk THEN disk[k.file]
                          ELSE EmptyDoc, k.html)),
          pending \ {k}, Answer(k.req, capturedReply, k.cap), {},
          {Touch("write", k.file, cacheDirAbsolute)}, {},
          put(captured, k.path, k.html))

\* two captures of one path that differ in their title
RacingCaptures ==
  {r \in PostRequests :
     /\ r.body.json = "object"
     /\ r.body.path = JStr("/about")
     /\ r.body.content = JStr(okContent)
     /\ r.body.title \in {JStr("Hi"), JStr(evilTitle)}}

InitRace ==
  /\ config \in {c \in Profiles : c.intercept_script # ""}
  /\ memoryCache = <<>>
  /\ disk = InitialDisk
  /\ pending = {}
  /\ response = Answer(NoRequest, NoRes, FALSE)
  /\ log = {}
  /\ touched = {}
  /\ resolved = {}
  /\ captured = <<>>
  /\ served = 0
  /\ running = 0
  /\ recency = <<>>
  /\ input = [fn |-> "race"]
  /\ output = Nothing

NextRace ==
  \/ \E r \in RacingCaptures : Post(r)
  \/ \E k \in pending : BeginWrite(k)
  \/ \E k \in pending : EndWrite(k)

SpecRace == InitRace /\ [][NextRace]_vars

\* C23 (as stated): when the captures of a path that ran together have all
\* completed, the cache file of the path holds the complete output of the
\* capture whose write completed last.
C23_LastWriterWins ==
  pending = {} =>
    \A path \in DOMAIN captured :
      disk[getDiskCacheFilePath(path)] = captured[path]

(***************************************************************************)
(* The memory cache under insertions and hits: addToMemoryCache, and the   *)
(* branch of GET that serves an entry of the Map.                          *)
(***************************************************************************)
MaxTouches == 4

ServedKeys == {"/k1", "/k2", "/k3"}

\* fetch, GET, lines 983-988: memoryCache.has(path), memoryCache.get(path)
\* and the reply; the Map is left as it is
Hit(key) ==
  /\ Len(recency) < MaxTouches
  /\ cacheHas(memoryCache, key)
  /\ memoryCache' = memoryCache
  /\ log' = {}
  /\ recency' = Append(recency, key)
  /\ UNCHANGED <<config, disk, pending, response, touched, resolved,
                 captured, served, running, input, output>>

NextServe ==
  \/ \E key \in ServedKeys : Insert(key)
  \/ \E key \in ServedKeys : Hit(key)

SpecServe == InitLRU /\ [][NextServe]_vars

\* C24 (as stated): a key that is evicted has gone longer without being
\* inserted or served than every other key of the cache, serving an entry
\* counting as a use.
C24_ServedKeyOutlivesIdleKey ==
  [][\A g \in cacheKeys(memoryCache) :
       Event("evicted", g) \in log'
         => \A o \in cacheKeys(memoryCache) \ {g} :
              lastTouch(g, recency) < lastTouch(o, recency)]_vars

\* C25 (as stated): the validator reports the earliest failing stage, and
\* no stage after the one that rejected the content is executed.
C25_LaterStagesNotRun ==
  (output.fn = "isSafeMainContent" /\ output.stage # 0)
    => \A n \in output.ran : n <= output.stage

\* the first half alone: the stage reported is the earliest failing one
C25_EarliestStageReported ==
  (output.fn = "isSafeMainContent" /\ output.stage # 0)
    => \E v \in {validations(input.text, input.timedOut)} :
         /\ ~v[output.stage].isValid
         /\ \A n \in 1..(output.stage - 1) : v[n].isValid

\* the tag tokens of cs from index i on, in their order
tagTokens(cs) ==
  LET go[i \in 1..(Len(cs) + 1)] ==
        Only({IF k = 0 THEN <<>>
              ELSE Only({<<t>> \o go[t.last + 1] : t \in {tagAt(cs, k)}}) :
                k \in {First({j \in i..Len(cs) : tagAt(cs, j).ok})}})
  IN  go[1]

\* the open-tag stack after the tokens, <<"!">> once a closing tag did not
\* match the most recently opened tag that is still open
RECURSIVE openAfter(_, _)
openAfter(tokens, open) ==
  IF tokens = <<>> \/ open = <<"!">> THEN open
  ELSE Only({
    IF t.closing
    THEN IF open # <<>> /\ open[Len(open)] = t.tagName
         THEN openAfter(Tail(tokens), SubSeq(open, 1, Len(open) - 1))
         ELSE <<"!">>
    ELSE IF t.selfClosed \/ t.tagName \in {"br", "img", "input", "hr",
                                           "meta", "link"}
         THEN openAfter(Tail(tokens), open)
         ELSE openAfter(Tail(tokens), Append(open, t.tagName)) :
      t \in {Head(tokens)}})

WellFormed(content) ==
  \E tokens \in {tagTokens(Chars(content))} :
    /\ \A n \in 1..Len(tokens) : tokens[n].tagName \in allowed_tags
    /\ openAfter(tokens, <<>>) = <<>>

\* C26: the structural check accepts a content exactly when every tag name
\* is allowed, every closing tag matches the most recently opened tag that
\* is still open, and no tag is left open at the end; void tags and tags
\* written self-closed are never pushed on the stack.
C26_StructureCheck ==
  output.fn = "validateHtmlStructure"
    => output.value = WellFormed(input.text)

\* a paragraph holding a void tag was accepted
C26_Witness ==
  /\ output.fn = "validateHtmlStructure"
  /\ input.text = "<p><br>t</p>"
  /\ output.value = TRUE

\* the density rule on tagChars characters of tags and textChars
\* characters of text
TooDense(tagChars, textChars) ==
  \/ textChars = 0
  \/ tagChars * max_tag_ratio_den
       > max_tag_ratio_num * (tagChars + textChars)

\* C27 (as stated): the density check rejects a content exactly when its
\* non-tag text is empty or tagChars / (tagChars + textChars) is strictly
\* greater than max_tag_ratio; a ratio equal to the maximum is accepted.
C27_DensityCheck ==
  output.fn = "validateTagRatio"
    => \E parts \in {tagSplit(Chars(input.text))} :
         output.value = ~TooDense(parts.tagLength, Len(parts.text))

\* C27 (amended): the same, where textChars counts the non-tag text after
\* leading and trailing white space is trimmed from it.
C27_DensityCheckOnTrimmedText ==
  output.fn = "validateTagRatio"
    => \E parts \in {tagSplit(Chars(input.text))} :
         output.value = ~TooDense(parts.tagLength, Len(trimCs(parts.text)))

\* 7 tag characters and 3 text characters, a ratio of exactly 0.7, were
\* accepted
C27_Witness ==
  /\ output.fn = "validateTagRatio"
  /\ input.text = "<b>abc</b>"
  /\ output.value = TRUE

\* C28: a guarded operation that runs over its budget or throws hands back
\* its default (false for test, null for exec, the unchanged string for
\* replace) and propagates no error; within the budget it hands back the
\* result of the operation.
C28_DefaultOnOverrunOrError ==
  output.fn \in GuardedOps
    => /\ ~output.propagated
       /\ output.value
            = IF input.throws \/ input.cost > timeoutMs
              THEN CASE output.fn = "test" -> "false"
                     [] output.fn = "exec" -> "null"
                     [] OTHER -> "str"
              ELSE "result"

\* an exec that threw handed back null
C28_Witness ==
  /\ output.fn = "exec"
  /\ input.throws
  /\ output.value = "null"

\* pattern p matches the whole of s, without regard to case, "*" standing
\* for any sequence of characters and "?" for any single character
RECURSIVE globMatch(_, _)
globMatch(p, s) ==
  IF p = <<>> THEN s = <<>>
  ELSE IF Head(p) = "*"
  THEN \E n \in 0..Len(s) : globMatch(Tail(p), SubSeq(s, n + 1, Len(s)))
  ELSE /\ s # <<>>
       /\ Head(p) = "?" \/ toLowerChar(Head(p)) = toLowerChar(Head(s))
       /\ globMatch(Tail(p), Tail(s))

matchesSome(patterns, path) ==
  \E n \in 1..Len(patterns) : globMatch(Chars(patterns[n]), Chars(path))

shouldCacheReference(path, routes, notRoutes) ==
  IF path = "/" THEN \E n \in 1..Len(routes) : routes[n] = "/"
  ELSE matchesSome(routes, path) /\ ~matchesSome(notRoutes, path)

\* C29 (as stated): shouldCachePath equals its reference for every path
\* and every pair of route lists.
C29_ShouldCacheIsReference ==
  output.fn = "shouldCache"
    => output.value
         = shouldCacheReference(input.text, input.routes, input.notRoutes)

\* the same for the paths without a line break
C29_ShouldCacheIsReferenceOnOneLine ==
  (output.fn = "shouldCache" /\ ~includes(input.text, "\n"))
    => output.value
         = shouldCacheReference(input.text, input.routes, input.notRoutes)

\* the length of the extension that ends the final segment of path: the
\* characters after its last ".", 0 when the final segment has no "."
extensionLength(path) ==
  Only({Only({IF dot > slash THEN Len(cs) - dot ELSE 0 :
                dot \in {Last({j \in 1..Len(cs) : cs[j] = "."})},
                slash \in {Last({j \in 1..Len(cs) : cs[j] = "/"})}}) :
          cs \in {Chars(path)}})

\* C30 (as stated): isStaticAsset is true exactly for the paths without
\* "?" whose final segment has a "." shortly before the end of the path, a
\* final segment that ends in an extension of 1 to 5 characters being a
\* static asset.
C30_ExtensionOfOneToFive ==
  output.fn = "isStaticAsset"
    => output.value
         = (/\ ~includes(input.text, "?")
            /\ extensionLength(input.text) \in 1..5)

\* the same for extensions of 1 to 4 characters
C30_ExtensionOfOneToFour ==
  output.fn = "isStaticAsset"
    => output.value
         = (/\ ~includes(input.text, "?")
            /\ extensionLength(input.text) \in 1..4)

(***************************************************************************)
(* C31: the order of the branches of a GET.                                *)
(***************************************************************************)
\* the step answers from the memory cache: it reads a file it did not look for
FromMemory == touched' # {} /\ \A t \in touched' : t.op = "read"

\* the step answers from the disk cache: it reads a file of the cache
\* directory it has just looked for
FromDisk(file) ==
  /\ Touch("stat", file, cacheDirAbsolute) \in touched'
  /\ Touch("read", file, cacheDirAbsolute) \in touched'

Shells == {htmlReply(spaShellHtml), htmlReply(spaHtmlWithInjectScript)}

AnswersWithoutFile ==
  /\ response'.req.method = "GET"
  /\ response'.res # NoRes
  /\ \A t \in touched' : t.op # "read"

RejectedCaptures ==
  {b \in PostBodies :
     \/ b.json = "malformed"
     \/ b.title.t # "string"
     \/ falsy(b.content) \/ b.content.t # "string"
     \/ Len(b.title.v) > max_title_length
     \/ falsy(b.path) \/ b.path.t # "string"
     \/ \A timedOut \in TimedOutChoices :
          rejectingStage(b.content.v, timedOut) # 0
     \/ ~decodeURI(b.path.v).ok
     \/ getDiskCacheFilePath(decodeURI(b.path.v).val) = Null}

\* the disk cache file of a capture that is not rejected
OwnFile ==
  [b \in PostBodies \ RejectedCaptures |->
     getDiskCacheFilePath(decodeURI(b.path.v).val)]

SameFile(f) ==
  /\ f \in DOMAIN disk <=> f \in DOMAIN disk'
  /\ f \in DOMAIN disk => disk'[f] = disk[f]

\* C33: no step of a capture POST changes the memory cache; a rejected
\* capture leaves every file as it was, and any other capture leaves every
\* file but the disk cache file of its own path as it was.
C33_CaptureFrame ==
  [][(response'.req.method = "POST" /\ CaptureUrl[response'.req])
       => /\ memoryCache' = memoryCache
          /\ response'.req.body \in RejectedCaptures => disk' = disk
          /\ response'.req.body \notin RejectedCaptures
               => \A f \in (DOMAIN disk \cup DOMAIN disk')
                               \ {OwnFile[response'.req.body]} :
                    SameFile(f)]_vars

\* a capture with a title over the limit was rejected while a snapshot of
\* its path was on disk and in the memory cache
C33_Witness ==
  /\ response.req.method = "POST"
  /\ response.req.body = Capture(longTitle, okContent, "/about")
  /\ getDiskCacheFilePath("/about") \in DOMAIN disk
  /\ cacheHas(memoryCache, "/about")

(***************************************************************************)
(* C34: the disk cache file of a path.                                     *)
(***************************************************************************)
\* the file name of a normalized path, character by character: the path
\* after its leading slash, each of / \ : * ? " < > | turned into _, then
\* .html
cacheFileName(clean) ==
  IF clean = "/" THEN "index.html"
  ELSE Only({Str([i \in 1..Len(cs) - 1 |->
                    IF cs[i + 1] \in {"/", "\\", ":", "*", "?", "\"", "<",
                                      ">", "|"}
                    THEN "_" ELSE cs[i + 1]]) :
               cs \in {Chars(clean)}}) \o ".html"

\* C34: for every path the resolver accepts, the disk cache file is a direct
\* child of the cache root: index.html for "/", and for any other normalized
\* path the path without its leading slash, with every / \ : * ? " < > |
\* replaced by _, followed by .html.
C34_CacheFileIsChildOfRoot ==
  (output.fn = "getDiskCacheFilePath" /\ output.value # Null)
    => /\ output.value = cacheDirAbsolute \o "/" \o cacheFileName(output.clean)
       /\ dirname(output.value) = cacheDirAbsolute
       /\ ~includes(cacheFileName(output.clean), "/")

\* a nested path has been resolved to a file
C34_Witness ==
  /\ output.fn = "getDiskCacheFilePath"
  /\ input.text = "/a/b/c"
  /\ output.value = cacheDirAbsolute \o "/a_b_c.html"

(***************************************************************************)
(* C35: inserting a key that is cached.                                    *)
(***************************************************************************)
\* the keys of a cache in their order, without one key
keysWithout(cache, key) ==
  SelectSeq([i \in 1..Len(cache) |-> cache[i].key], LAMBDA k : k # key)

\* C35: inserting a key that is in the memory cache neither duplicates it
\* nor evicts a key: the set of keys and the size stay the same, the other
\* keys keep their order, and the key becomes the most recent one, the last
\* that the evictions to come reach.
C35_ReinsertionRefreshes ==
  [][recency' # recency =>
       LET key == recency'[Len(recency')]
       IN  cacheHas(memoryCache, key) =>
             /\ cacheKeys(memoryCache') = cacheKeys(memoryCache)
             /\ Len(memoryCache') = Len(memoryCache)
             /\ Cardinality(cacheKeys(memoryCache')) = Len(memoryCache')
             /\ memoryCache'[Len(memoryCache')].key = key
             /\ keysWithout(memoryCache', key) = keysWithout(memoryCache, key)
             /\ log' = {}]_vars

\* the oldest of three cached keys was inserted again and is now the newest
C35_Witness ==
  /\ Len(recency) = 4
  /\ recency[4] = recency[1]
  /\ Cardinality({recency[i] : i \in 1..3}) = 3
  /\ Len(memoryCache) = 3
  /\ memoryCache[3].key = recency[1]

(***************************************************************************)
(* C36: the deny-list when a guarded test runs over its budget.            *)
(***************************************************************************)
\* the content contains a construct of the deny-list
OnDenyList(content) ==
  \E lc \in {lower(Chars(content))} :
    \E n \in 1..Len(dangerousReasons) : dangerousTest(n, lc)

\* C36: content that contains a construct of the dangerous-pattern deny-list
\* is never accepted by the validator, also when the guarded test of the
\* matching pattern runs over its time budget or throws.
C36_DenyListFailsClosed ==
  (output.fn = "isSafeMainContent" /\ OnDenyList(input.text))
    => output.stage # 0

\* the same for the validations whose tests all stay within their budget
C36_DenyListEnforcedInTime ==
  (output.fn = "isSafeMainContent" /\ OnDenyList(input.text)
     /\ input.timedOut = {})
    => output.stage # 0

(***************************************************************************)
(* C37: the memory cache and the files it refers to.                       *)
(***************************************************************************)
\* C37: in every reachable state, whatever the interleaving of GET, capture
\* POST and authenticated DELETE requests, every memory cache entry whose
\* key is not a static asset path refers to a disk cache file that exists.
C37_CachedSnapshotsExist ==
  \A i \in 1..Len(memoryCache) :
    ~isStaticAsset(memoryCache[i].key) => memoryCache[i].file \in DOMAIN disk

(***************************************************************************)
(* A deployment with an intercept script and a JWT secret: captures of     *)
(* /about that wait for the script, authenticated DELETEs of /about, and   *)
(* GETs of the page and of its snapshot file.                              *)
(***************************************************************************)
AdminDeletes ==
  {r \in DeleteRequests :
     r.auth = "Bearer good" /\ r.body = Json(JAbsent, JAbsent, JStr("/about"))}

InitAdmin ==
  /\ config = AdminProfile
  /\ memoryCache = <<>>
  /\ disk = InitialDisk
  /\ pending = {}
  /\ response = Answer(NoRequest, NoRes, FALSE)
  /\ log = {}
  /\ touched = {}
  /\ resolved = {}
  /\ captured = <<>>
  /\ served = 0
  /\ running = 0
  /\ recency = <<>>
  /\ input = [fn |-> "admin"]
  /\ output = Nothing

NextAdmin ==
  \/ \E r \in SnapshotGets : Get(r)
  \/ \E r \in RacingCaptures : Post(r)
  \/ \E r \in AdminDeletes : Delete(r)
  \/ \E k \in pending : ResumeStatic(k)
  \/ \E k \in pending : ResumeDisk(k)
  \/ \E k \in pending : ResumeIntercept(k)
  \/ \E k \in pending : ResumeDelete(k)

SpecAdmin == InitAdmin /\ [][NextAdmin]_vars

(***************************************************************************)
(* C38: a capture in flight when a DELETE returns.                         *)
(***************************************************************************)
\* an authenticated DELETE of the file has just returned
DeleteReturned(file) ==
  /\ response.req.method = "DELETE"
  /\ response.res = deletedReply
  /\ Touch("stat", file, cacheDirAbsolute) \in touched

\* C38: once an authenticated DELETE for a path has returned, the disk cache
\* file of the path stays absent until a capture received after the DELETE
\* writes it; here for the step that follows the return: a capture that was
\* waiting for its transform when the DELETE returned does not create the
\* file.
C38_InFlightCaptureDoesNotRecreate ==
  [][\A k \in pending :
       (k.at = "intercept" /\ DeleteReturned(k.file)
          /\ k.file \notin DOMAIN disk)
         => k.file \notin DOMAIN disk']_vars

(***************************************************************************)
(* C39: who is sent a snapshot.                                            *)
(***************************************************************************)
\* the document carries text of a capture (its title or its content)
FromCapture(d) == \E i \in 1..Len(d.taint) : d.taint[i] \in {"t", "c"}

\* C39: a GET is answered with the text of a snapshot only through the
\* branches that serve the cache, that is only when shouldServeCached is
\* true and the path is cacheable and no static asset path; a GET of a
\* static asset path that resolves into the cache directory is not answered
\* with a snapshot.
C39_SnapshotsOnlyFromCacheBranches ==
  (AnsweredGet /\ FromCapture(response.res.body))
    => /\ \/ config.serve_cached_to = "all_clients"
          \/ config.serve_cached_to = "crawlers_only"
               /\ isCrawlerOrBot(response.req.ua)
       /\ Routes[config][response.req].isCacheableRoute
       /\ ~isStaticAsset(Routes[config][response.req].path)

\* the same for the GETs of paths that are no static asset paths
C39_PagesOnlyFromCacheBranches ==
  (AnsweredGet /\ FromCapture(response.res.body)
     /\ ~isStaticAsset(Routes[config][response.req].path))
    => /\ \/ config.serve_cached_to = "all_clients"
          \/ config.serve_cached_to = "crawlers_only"
               /\ isCrawlerOrBot(response.req.ua)
       /\ Routes[config][response.req].isCacheableRoute

(***************************************************************************)
(* C40: the disk cache files of two paths.                                 *)
(***************************************************************************)
\* both paths of the input have been resolved to a file
BothResolved ==
  /\ output.fn = "getDiskCacheFilePath"
  /\ output.value # Null
  /\ output.otherValue # Null

\* C40: two URL paths whose normalized forms differ resolve to different
\* disk cache files.
C40_DistinctPathsDistinctFiles ==
  (BothResolved /\ output.clean # output.otherClean)
    => output.value # output.otherValue
====
